---- MODULE Spec2Model ----
(***************************************************************************)
(* BeancountPilot: rule store, classification coordinator and feedback     *)
(* learner (src/src/db/repositories.py, src/src/core/*.py,                 *)
(* src/src/ai/openai_provider.py), modelled as a state machine over the    *)
(* four tables of src/src/db/models.py.                                    *)
(*                                                                         *)
(* Text values (peer, item, category, patterns) are sequences of           *)
(* one-character strings, so that Python's substring test and f-string     *)
(* concatenation are computed rather than assumed.  Account names, rule    *)
(* names and reasoning texts are never searched and are plain strings.     *)
(***************************************************************************)
EXTENDS Integers, Sequences, FiniteSets, TLC

VARIABLES
    rules,            \* table "rules", in rowid (insertion) order
    transactions,     \* table "transactions"
    classifications,  \* table "classifications"
    feedbacks,        \* table "feedback"
    nextId,           \* stands for uuid.uuid4(): the next unused id
    now,              \* the wall clock read by the created_at defaults
    last              \* the last call: its name, arguments and outcome

vars == <<rules, transactions, classifications, feedbacks, nextId, now, last>>

----------------------------------------------------------------------------
(* Bounds of the model *)

\* longest transaction field explored by the matching specification
MaxLen == 2

\* most rows the rule-management specification creates
MaxRuleIds == 2

\* latest reading of the wall clock
MaxClock == 1

\* most rules created on top of the initial store before classifying
MaxClassifyRules == 2

\* longest list of transactions handed to classify_transactions
MaxBatch == 3

\* most classification rows the persistence specification creates
MaxRows == 2

\* most feedback rows the persistence specification creates
MaxFeedback == 1

\* longest list of transactions posted to the classify route
MaxRouteBatch == 2

\* most feedback records the learner specification records
MaxLearnFeedback == 2

\* most rules the learner specification generates
MaxLearnRules == 2

----------------------------------------------------------------------------
(* Text helpers *)

RECURSIVE SeqsUpTo(_, _)
\* all sequences over alphabet A of length at most n
SeqsUpTo(A, n) ==
    IF n = 0 THEN {<<>>}
    ELSE LET shorter == SeqsUpTo(A, n - 1)
         IN shorter \cup {Append(s, c) : s \in shorter, c \in A}

\* Python "p in s" for two str values
IsSubstring(p, s) ==
    \E i \in 1..(Len(s) - Len(p) + 1) : SubSeq(s, i, i + Len(p) - 1) = p

\* a condition value: a single pattern (str) or a list of patterns
StrVal(p) == [isStr |-> TRUE, val |-> p]
ListVal(l) == [isStr |-> FALSE, val |-> l]

\* "if isinstance(x, str): x = [x]"
AsList(v) == IF v.isStr THEN <<v.val>> ELSE v.val

\* the order in which a conditions dict lists its keys
KeyOrder == <<"peer", "item", "category">>

\* json.dumps of a conditions dict: the members of the JSON object, in order
JsonDumps(conditions) ==
    LET Present(k) == k \in DOMAIN conditions
        keys == SelectSeq(KeyOrder, Present)
    IN [i \in 1..Len(keys) |-> <<keys[i], conditions[keys[i]]>>]

\* json.loads of a stored conditions text: the dict of its members
JsonLoads(text) ==
    LET keys == {text[i][1] : i \in 1..Len(text)}
    IN [k \in keys |->
          LET i == CHOOSE j \in 1..Len(text) :
                     /\ text[j][1] = k
                     /\ \A l \in (j + 1)..Len(text) : text[l][1] # k
          IN text[i][2]]

----------------------------------------------------------------------------
(* RuleRepository *)

\* default page size of every list_all
ListLimit == 100

\* db.query(Rule).offset(skip).limit(limit).all()
RuleRepository_list_all(skip, limit) ==
    SubSeq(rules, skip + 1, IF skip + limit < Len(rules) THEN skip + limit ELSE Len(rules))

\* the category test with Python's substring operator instead of list membership
RuleMatchesSubstringCategory(rule, peer, item, category) ==
    LET conditions == JsonLoads(rule.conditions)
        m1 == IF "peer" \in DOMAIN conditions
              THEN \E i \in DOMAIN AsList(conditions["peer"]) :
                      IsSubstring(AsList(conditions["peer"])[i], peer)
              ELSE TRUE
        m2 == IF m1 /\ "item" \in DOMAIN conditions
              THEN \E i \in DOMAIN AsList(conditions["item"]) :
                      IsSubstring(AsList(conditions["item"])[i], item)
              ELSE m1
    IN IF m2 /\ "category" \in DOMAIN conditions
       THEN \E i \in DOMAIN AsList(conditions["category"]) :
               IsSubstring(AsList(conditions["category"])[i], category)
       ELSE m2

\* the body of match_transaction's loop: the value of "match" for one rule
RuleMatches(rule, peer, item, category) ==
    LET conditions == JsonLoads(rule.conditions)
        \* "peer" in conditions: any(p in peer for p in peer_conditions)
        m1 == IF "peer" \in DOMAIN conditions
              THEN LET peer_conditions == AsList(conditions["peer"])
                   IN \E i \in DOMAIN peer_conditions :
                         IsSubstring(peer_conditions[i], peer)
              ELSE TRUE
        \* match and "item" in conditions
        m2 == IF m1 /\ "item" \in DOMAIN conditions
              THEN LET item_conditions == AsList(conditions["item"])
                   IN \E i \in DOMAIN item_conditions :
                         IsSubstring(item_conditions[i], item)
              ELSE m1
        \* match and "category" in conditions: category in category_conditions
        m3 == IF m2 /\ "category" \in DOMAIN conditions
              THEN LET category_conditions == AsList(conditions["category"])
                   IN \E i \in DOMAIN category_conditions :
                         category_conditions[i] = category
              ELSE m2
    IN m3

\* RuleRepository.match_transaction: the matching rules among list_all(db)
RuleRepository_match_transaction(peer, item, category) ==
    LET Test(rule) == RuleMatches(rule, peer, item, category)
    IN SelectSeq(RuleRepository_list_all(0, ListLimit), Test)

\* datetime.utcnow() at a row's creation: the clock has not moved, or it has
ClockReadings == {now} \cup (IF now < MaxClock THEN {now + 1} ELSE {})

\* Rule(...) as stored by RuleRepository.create: db.add, db.commit, db.refresh
NewRule(id, name, conditions, account, confidence, source, t) ==
    [id |-> id, name |-> name, conditions |-> JsonDumps(conditions),
     account |-> account, confidence |-> confidence, source |-> source,
     created_at |-> t, updated_at |-> t]

\* RuleRepository.create: the table after the insert
RuleRepository_create(id, name, conditions, account, confidence, source, t) ==
    Append(rules, NewRule(id, name, conditions, account, confidence, source, t))

\* RuleRepository.get_by_id: the positions of the rows with that id
RuleRepository_get_by_id(rule_id) ==
    {i \in 1..Len(rules) : rules[i].id = rule_id}

\* None where an account is expected
None == "<None>"

\* None where a text (a name, peer, item, category) is expected
NoneText == <<"<None>">>

\* None where a conditions dict is expected; a dict is passed as [dict |-> d]
NoneDict == [none |-> TRUE]

\* an update that assigns every argument, the omitted ones included
UpdatedRuleAssigningAll(rule, name, conditions, account, t) ==
    [rule EXCEPT !.name = name,
                 !.conditions = IF conditions # NoneDict
                                THEN JsonDumps(conditions.dict) ELSE @,
                 !.account = account,
                 !.updated_at = t]

\* RuleRepository.update: the row after the supplied fields are overwritten
UpdatedRule(rule, name, conditions, account, t) ==
    [rule EXCEPT
        !.name = IF name # NoneText THEN name ELSE @,
        !.conditions = IF conditions # NoneDict THEN JsonDumps(conditions.dict) ELSE @,
        !.account = IF account # None THEN account ELSE @,
        !.updated_at = t]

\* the dict a RuleEngine method returns for a row
RuleDict(rule) ==
    [id |-> rule.id, name |-> rule.name, conditions |-> JsonLoads(rule.conditions),
     account |-> rule.account, confidence |-> rule.confidence,
     source |-> rule.source, created_at |-> rule.created_at]

\* the dict get_rule and update_rule return
StoredRuleDict(rule) ==
    [id |-> rule.id, name |-> rule.name, conditions |-> JsonLoads(rule.conditions),
     account |-> rule.account, confidence |-> rule.confidence,
     source |-> rule.source, created_at |-> rule.created_at,
     updated_at |-> rule.updated_at]

\* peer[:10]
Truncate10(s) == SubSeq(s, 1, IF Len(s) < 10 THEN Len(s) ELSE 10)

\* a falsy argument of auto_generate_rule_from_feedback: None or ""
Falsy(s) == s = NoneText \/ s = <<>>

\* a conditions dict that keeps all three keys, the empty ones included
AutoConditionsAllKeys(peer, item, category) ==
    [k \in {"peer", "item", "category"} |->
        StrVal(CASE k = "peer" -> peer
                 [] k = "item" -> item
                 [] k = "category" -> category)]

\* auto_generate_rule_from_feedback: the conditions dict it builds
AutoConditions(peer, item, category) ==
    LET keys == {k \in {"peer", "item", "category"} :
                    \/ k = "peer" /\ ~Falsy(peer)
                    \/ k = "item" /\ ~Falsy(item)
                    \/ k = "category" /\ ~Falsy(category)}
    IN [k \in keys |-> StrVal(CASE k = "peer" -> peer
                                [] k = "item" -> item
                                [] k = "category" -> category)]

RECURSIVE JoinDash(_)
\* "-".join(name_parts)
JoinDash(parts) ==
    IF parts = <<>> THEN <<>>
    ELSE IF Len(parts) = 1 THEN parts[1]
    ELSE parts[1] \o <<"-">> \o JoinDash(Tail(parts))

\* auto_generate_rule_from_feedback: f"{name}-{uuid.uuid4().hex[:6]}"
AutoName(peer, item, category, suffix) ==
    LET NonEmpty(x) == ~Falsy(x)
        parts == SelectSeq(<<peer, item, category>>, NonEmpty)
        name_parts == [i \in 1..Len(parts) |-> Truncate10(parts[i])]
        name == IF name_parts # <<>> THEN JoinDash(name_parts)
                ELSE <<"auto-generated-rule">>
    IN name \o <<"-", suffix>>

----------------------------------------------------------------------------
(* RuleEngine operations *)

\* the conditions a caller of the rule engine passes
CallerConditions ==
    {<<>>, [k \in {"peer"} |-> StrVal(<<"a">>)]}

\* RuleEngine.create_rule(name, conditions, account, confidence, source)
CreateRule ==
    \E conditions \in CallerConditions, t \in ClockReadings :
        /\ nextId <= MaxRuleIds
        /\ rules' = RuleRepository_create(nextId, <<"rule">>, conditions, "Expenses:Food",
                                          10, "user", t)
        /\ nextId' = nextId + 1
        /\ now' = t
        /\ last' = [op |-> "create_rule", conditions |-> conditions,
                    raised |-> "", result |-> RuleDict(rules'[Len(rules')])]
        /\ UNCHANGED <<transactions, classifications, feedbacks>>

\* RuleEngine.update_rule(rule_id, name, conditions, account)
UpdateRule ==
    \E rule_id \in 1..(MaxRuleIds + 1), name \in {NoneText, <<"renamed">>},
       conditions \in {NoneDict, [dict |-> <<>>]},
       account \in {None, "Expenses:Misc"}, t \in ClockReadings :
        LET found == RuleRepository_get_by_id(rule_id)
        IN /\ IF found # {}
              THEN LET i == CHOOSE j \in found : TRUE
                   IN /\ rules' = [rules EXCEPT
                                     ![i] = UpdatedRule(rules[i], name, conditions, account, t)]
                      /\ now' = t
                      /\ last' = [op |-> "update_rule", rule_id |-> rule_id,
                                  name |-> name, conditions |-> conditions,
                                  account |-> account, found |-> TRUE,
                                  result |-> StoredRuleDict(rules'[i])]
              ELSE /\ UNCHANGED <<rules, now>>
                   /\ last' = [op |-> "update_rule", rule_id |-> rule_id,
                               name |-> name, conditions |-> conditions,
                               account |-> account, found |-> FALSE]
           /\ UNCHANGED <<transactions, classifications, feedbacks, nextId>>

\* a delete that also drops the rules stored after the one it removes
DeleteRuleTruncating ==
    \E rule_id \in 1..(MaxRuleIds + 1) :
        LET found == RuleRepository_get_by_id(rule_id)
            Keep(rule) == rule.id < rule_id
        IN /\ rules' = IF found # {} THEN SelectSeq(rules, Keep) ELSE rules
           /\ last' = [op |-> "delete_rule", rule_id |-> rule_id, result |-> found # {}]
           /\ UNCHANGED <<transactions, classifications, feedbacks, nextId, now>>

\* RuleEngine.delete_rule(rule_id)
DeleteRule ==
    \E rule_id \in 1..(MaxRuleIds + 1) :
        LET found == RuleRepository_get_by_id(rule_id)
            Keep(rule) == rule.id # rule_id
        IN /\ rules' = SelectSeq(rules, Keep)
           /\ last' = [op |-> "delete_rule", rule_id |-> rule_id, result |-> found # {}]
           /\ UNCHANGED <<transactions, classifications, feedbacks, nextId, now>>

\* the (peer, item, category) arguments of auto_generate_rule_from_feedback
AutoArguments ==
    {<< <<>>, NoneText, <<>> >>, << <<"a">>, NoneText, <<>> >>,
     << <<>>, <<"b">>, <<"a">> >>, << <<"a">>, <<"b">>, <<"a">> >>}

\* RuleEngine.auto_generate_rule_from_feedback(peer, item, category, account)
AutoGenerateRule ==
    \E args \in AutoArguments, t \in ClockReadings :
      LET peer == args[1]
          item == args[2]
          category == args[3]
      IN
        /\ nextId <= MaxRuleIds
        /\ rules' = RuleRepository_create(nextId,
                        AutoName(peer, item, category, ToString(nextId)),
                        AutoConditions(peer, item, category), "Expenses:Food", 9, "auto", t)
        /\ nextId' = nextId + 1
        /\ now' = t
        /\ last' = [op |-> "auto_generate_rule_from_feedback", peer |-> peer,
                    item |-> item, category |-> category,
                    result |-> RuleDict(rules'[Len(rules')])]
        /\ UNCHANGED <<transactions, classifications, feedbacks>>

InitRules ==
    /\ rules = <<>>
    /\ transactions = <<>>
    /\ classifications = <<>>
    /\ feedbacks = <<>>
    /\ nextId = 1
    /\ now = 0
    /\ last = [op |-> "init"]

NextRules == CreateRule \/ UpdateRule \/ DeleteRule \/ AutoGenerateRule

SpecRules == InitRules /\ [][NextRules]_vars

----------------------------------------------------------------------------
(* Rule maintenance: update_rule, delete_rule and get_rule on a store that
   holds one rule of each source *)

InitMaintain ==
    /\ rules = << NewRule(1, <<"rule">>, [k \in {"peer"} |-> StrVal(<<"a">>)],
                          "Expenses:Food", 10, "user", 0),
                  NewRule(2, AutoName(<<"a">>, NoneText, <<>>, "2"),
                          AutoConditions(<<"a">>, NoneText, <<>>),
                          "Expenses:Food", 9, "auto", 0) >>
    /\ transactions = <<>>
    /\ classifications = <<>>
    /\ feedbacks = <<>>
    /\ nextId = 3
    /\ now = 0
    /\ last = [op |-> "init"]

\* RuleEngine.get_rule(rule_id)
GetRule ==
    \E rule_id \in 1..(MaxRuleIds + 1) :
        LET found == RuleRepository_get_by_id(rule_id)
        IN /\ last' = IF found # {}
                      THEN [op |-> "get_rule", rule_id |-> rule_id, found |-> TRUE,
                            result |-> StoredRuleDict(rules[CHOOSE j \in found : TRUE])]
                      ELSE [op |-> "get_rule", rule_id |-> rule_id, found |-> FALSE]
           /\ UNCHANGED <<rules, transactions, classifications, feedbacks, nextId, now>>

NextMaintain == UpdateRule \/ DeleteRule \/ GetRule

SpecMaintain == InitMaintain /\ [][NextMaintain]_vars

----------------------------------------------------------------------------
(* Rule generation: auto_generate_rule_from_feedback for either account, on a
   store that also loses rules *)

\* the accounts a rule is generated for
AutoAccounts == {"Expenses:Food", "Income:Other"}

\* RuleEngine.auto_generate_rule_from_feedback(peer, item, category, account)
GenerateRuleFromFeedback ==
    \E args \in AutoArguments, account \in AutoAccounts, t \in ClockReadings :
      LET peer == args[1]
          item == args[2]
          category == args[3]
      IN
        /\ nextId <= MaxRuleIds
        /\ rules' = RuleRepository_create(nextId,
                        AutoName(peer, item, category, ToString(nextId)),
                        AutoConditions(peer, item, category), account, 9, "auto", t)
        /\ nextId' = nextId + 1
        /\ now' = t
        /\ last' = [op |-> "auto_generate_rule_from_feedback", peer |-> peer,
                    item |-> item, category |-> category, account |-> account,
                    result |-> RuleDict(rules'[Len(rules')])]
        /\ UNCHANGED <<transactions, classifications, feedbacks>>

NextGenerate == GenerateRuleFromFeedback \/ DeleteRule

SpecGenerate == InitRules /\ [][NextGenerate]_vars

----------------------------------------------------------------------------
(* Matching specification: one stored rule, matched against transactions *)

MatchAlphabet == {"a", "b"}

\* the texts a transaction field takes
MatchTexts == SeqsUpTo(MatchAlphabet, MaxLen)

\* the values a condition key takes: single patterns and pattern lists
MatchValues ==
    {StrVal(<<>>), StrVal(<<"a">>),
     ListVal(<<>>), ListVal(<< <<"b">>, <<"a", "b">> >>), ListVal(<< <<"a">> >>)}

\* every conditions dict over the three keys
MatchConditions ==
    UNION {[ks -> MatchValues] : ks \in SUBSET {"peer", "item", "category"}}

InitMatch ==
    /\ \E c \in MatchConditions :
          rules = << [id |-> 1, name |-> <<"rule">>, conditions |-> JsonDumps(c),
                      account |-> "Expenses:Food", confidence |-> 10,
                      source |-> "user", created_at |-> 0, updated_at |-> 0] >>
    /\ transactions = <<>>
    /\ classifications = <<>>
    /\ feedbacks = <<>>
    /\ nextId = 2
    /\ now = 0
    /\ last = [op |-> "init"]

\* RuleEngine.match_transaction(peer, item, category)
MatchTransaction ==
    \E peer \in MatchTexts, item \in {<<"b">>, <<"a", "b">>},
       category \in {<<>>, <<"a">>, <<"a", "b">>} :
        /\ last' = [op |-> "match_transaction", peer |-> peer, item |-> item,
                    category |-> category,
                    result |-> RuleRepository_match_transaction(peer, item, category)]
        /\ UNCHANGED <<rules, transactions, classifications, feedbacks, nextId, now>>

NextMatch == MatchTransaction

SpecMatch == InitMatch /\ [][NextMatch]_vars

----------------------------------------------------------------------------
(* AI provider: OpenAIProvider and the prompt parsers *)

\* transaction.get(key, "")
Get(tx, key) == IF key \in DOMAIN tx THEN tx[key] ELSE <<>>

\* the account of every degraded result
DefaultAccount == "Expenses:Misc"

\* what the language model answers about one transaction
ModelAnswer(tx) ==
    [account |-> IF Get(tx, "peer") = <<"a">> THEN "Expenses:Food" ELSE "Expenses:Transport",
     confidence |-> 9,
     reasoning |-> <<"about ", tx.id>>]

\* the outcomes of one chat completion for a single-transaction prompt:
\* an exception (network, auth, timeout), content that is no JSON, a JSON
\* object with every field, a JSON object with the account only
SingleReplies(tx) ==
    {[kind |-> "raise", error |-> "timeout"],
     [kind |-> "text", content |-> "sorry"],
     [kind |-> "object", fields |-> ModelAnswer(tx)],
     [kind |-> "object", fields |-> [account |-> ModelAnswer(tx).account]]}

\* the required fields added by both parsers when missing
WithDefaults(fields) ==
    [k \in DOMAIN fields \cup {"account", "confidence", "reasoning"} |->
        IF k \in DOMAIN fields THEN fields[k]
        ELSE CASE k = "account" -> DefaultAccount
               [] k = "confidence" -> 5
               [] k = "reasoning" -> <<>>]

\* parse_classification_response(content)
parse_classification_response(reply) ==
    IF reply.kind = "object" THEN WithDefaults(reply.fields)
    ELSE [account |-> DefaultAccount, confidence |-> 0,
          reasoning |-> <<"Parse failed: ", reply.content>>]

\* OpenAIProvider.classify: the call, the parse, and the except branch
OpenAIProvider_classify(reply) ==
    IF reply.kind = "raise"
    THEN [account |-> DefaultAccount, confidence |-> 0,
          reasoning |-> <<"API call failed: ", reply.error>>]
    ELSE parse_classification_response(reply)

\* parse_batch_classification_response(content) for content that parses
parse_batch_classification_response(reply) ==
    IF reply.kind = "array"
    THEN [i \in 1..Len(reply.entries) |-> WithDefaults(reply.entries[i])]
    ELSE <<>>

\* one failed call degrades every result of the gather
OneByOneFailingTogether(singles) ==
    [i \in 1..Len(singles) |->
        IF \E k \in 1..Len(singles) : singles[k].kind = "raise"
        THEN [account |-> DefaultAccount, confidence |-> 0,
              reasoning |-> <<"API call failed: ", "timeout">>]
        ELSE OpenAIProvider_classify(singles[i])]

\* OpenAIProvider._classify_one_by_one: asyncio.gather over classify
OpenAIProvider_classify_one_by_one(singles) ==
    [i \in 1..Len(singles) |-> OpenAIProvider_classify(singles[i])]

\* largest batch sent as one prompt
BatchPromptMax == 10

\* a fallback on failures only, without the comparison of the two counts
FallsBackOnFailureOnly(n, batch) ==
    \/ n > BatchPromptMax
    \/ batch.kind = "raise"

\* whether batch_classify ends in _classify_one_by_one
FallsBack(n, batch) ==
    \/ n > BatchPromptMax
    \/ batch.kind = "raise"
    \/ Len(parse_batch_classification_response(batch)) # n

\* OpenAIProvider.batch_classify(transactions, ...)
OpenAIProvider_batch_classify(n, batch, singles) ==
    IF FallsBack(n, batch)
    THEN OpenAIProvider_classify_one_by_one(singles)
    ELSE parse_batch_classification_response(batch)

\* the entry of a batch reply for the transaction numbered k in the prompt
BatchEntry(txs, k) ==
    [index |-> k - 1, account |-> ModelAnswer(txs[k]).account,
     confidence |-> ModelAnswer(txs[k]).confidence,
     reasoning |-> ModelAnswer(txs[k]).reasoning]

\* the outcomes of the chat completion for a batch prompt: an exception, and
\* JSON arrays listing the entries without the last one, in prompt order,
\* and in reverse order
BatchReplies(txs) ==
    LET n == Len(txs)
        inorder == [k \in 1..n |-> BatchEntry(txs, k)]
    IN {[kind |-> "raise", error |-> "timeout"],
        [kind |-> "array", entries |-> SubSeq(inorder, 1, n - 1)],
        [kind |-> "array", entries |-> inorder],
        [kind |-> "array", entries |-> [k \in 1..n |-> inorder[n + 1 - k]]]}

----------------------------------------------------------------------------
(* Classifier *)

\* max(user_rules, key=lambda r: r.confidence): the first maximal element
MaxByConfidence(rs) ==
    LET i == CHOOSE j \in 1..Len(rs) :
                /\ \A k \in 1..Len(rs) : rs[k].confidence <= rs[j].confidence
                /\ \A k \in 1..(j - 1) : rs[k].confidence < rs[j].confidence
    IN rs[i]

\* min in place of max
MinByConfidence(rs) ==
    LET i == CHOOSE j \in 1..Len(rs) :
                /\ \A k \in 1..Len(rs) : rs[k].confidence >= rs[j].confidence
                /\ \A k \in 1..(j - 1) : rs[k].confidence > rs[j].confidence
    IN rs[i]

\* user_rules = [r for r in matched_rules if r.source == "user"]
UserRules(tx) ==
    LET IsUser(r) == r.source = "user"
    IN SelectSeq(RuleRepository_match_transaction(
                    Get(tx, "peer"), Get(tx, "item"), Get(tx, "category")), IsUser)

\* the result dict of a rule-resolved transaction
RuleResult(tx, user_rules) ==
    LET rule == MaxByConfidence(user_rules)
    IN [transaction |-> tx, account |-> rule.account, confidence |-> rule.confidence,
        reasoning |-> <<"Matched user rule: ">> \o rule.name, source |-> "rule"]

\* first loop of classify_transactions: rule results and "ai" placeholders
FirstPass(txs) ==
    [i \in 1..Len(txs) |->
        LET user_rules == UserRules(txs[i])
        IN IF user_rules # <<>> THEN RuleResult(txs[i], user_rules)
           ELSE [transaction |-> txs[i], source |-> "ai"]]

\* a batch made of every transaction, the rule-resolved ones included
AiTransactionsAll(results) ==
    [k \in 1..Len(results) |-> results[k].transaction]

\* ai_transactions = [r["transaction"] for r in results if r["source"] == "ai"]
AiTransactions(results) ==
    LET IsAi(r) == r.source = "ai"
        pending == SelectSeq(results, IsAi)
    IN [k \in 1..Len(pending) |-> pending[k].transaction]

\* results[i].update({...}) from ai_results[ai_index]
Spliced(result, ai_result) ==
    [transaction |-> result.transaction, source |-> "ai",
     account |-> ai_result.account, confidence |-> ai_result.confidence,
     reasoning |-> ai_result.reasoning]

RECURSIVE MergeNoAdvance(_, _, _, _)
\* the merge loop without "ai_index += 1"
MergeNoAdvance(results, ai_results, i, ai_index) ==
    IF i > Len(results) THEN results
    ELSE IF results[i].source = "ai"
         THEN MergeNoAdvance([results EXCEPT ![i] = Spliced(@, ai_results[ai_index + 1])],
                             ai_results, i + 1, ai_index)
         ELSE MergeNoAdvance(results, ai_results, i + 1, ai_index)

RECURSIVE Merge(_, _, _, _)
\* the merge loop of classify_transactions, from position i with ai_index
Merge(results, ai_results, i, ai_index) ==
    IF i > Len(results) THEN results
    ELSE IF results[i].source = "ai"
         THEN Merge([results EXCEPT ![i] = Spliced(@, ai_results[ai_index + 1])],
                    ai_results, i + 1, ai_index + 1)
         ELSE Merge(results, ai_results, i + 1, ai_index)

\* second half of classify_transactions: "if ai_transactions:" and the merge
SecondPass(results, ai_results) ==
    IF AiTransactions(results) # <<>>
    THEN Merge(results, ai_results, 1, 0)
    ELSE results

\* Classifier.classify_transaction, given the provider's reply
ClassifierResult(tx, reply) ==
    LET user_rules == UserRules(tx)
        result == OpenAIProvider_classify(reply)
    IN IF user_rules # <<>>
       THEN LET rule == MaxByConfidence(user_rules)
            IN [account |-> rule.account, confidence |-> rule.confidence,
                reasoning |-> <<"Matched user rule: ">> \o rule.name, source |-> "rule"]
       ELSE [k \in DOMAIN result \cup {"source"} |->
                IF k = "source" THEN "ai" ELSE result[k]]

----------------------------------------------------------------------------
(* Classification specification: a rule store, then classify calls *)

\* the transaction dicts a caller submits; the second has no "item" key
ClassifyTxs ==
    {[id |-> "t1", peer |-> <<"a">>, item |-> <<"b">>, category |-> <<>>],
     [id |-> "t2", peer |-> <<"b">>, category |-> <<"a">>]}

\* a store that already holds n auto rules, none of which matches ClassifyTxs
StoreOf(n) ==
    [i \in 1..n |->
        [id |-> 0 - i, name |-> <<"z", "-", "z", "-", "hex">>,
         conditions |-> JsonDumps([k \in {"peer"} |-> StrVal(<<"z">>)]),
         account |-> "Expenses:Food", confidence |-> 9, source |-> "auto",
         created_at |-> 0, updated_at |-> 0]]

\* the account each new rule targets
AccountOfRule == [i \in 1..3 |-> <<"Assets:One", "Assets:Two", "Assets:Three">>[i]]

InitClassify ==
    /\ rules = StoreOf(0)
    /\ transactions = <<>>
    /\ classifications = <<>>
    /\ feedbacks = <<>>
    /\ nextId = 1
    /\ now = MaxClock
    /\ last = [op |-> "init"]

\* RuleEngine.create_rule for rules on the payee "a"
ClassifyCreateRule ==
    \E kind \in {<<"user", 6>>, <<"user", 10>>, <<"auto", 10>>}, t \in ClockReadings :
      LET source == kind[1]
          confidence == kind[2]
      IN
        /\ nextId <= MaxClassifyRules
        /\ rules' = RuleRepository_create(nextId, <<"rule", ToString(nextId)>>,
                        [k \in {"peer"} |-> StrVal(<<"a">>)],
                        AccountOfRule[nextId], confidence, source, t)
        /\ nextId' = nextId + 1
        /\ now' = t
        /\ last' = [op |-> "create_rule",
                    conditions |-> [k \in {"peer"} |-> StrVal(<<"a">>)],
                    raised |-> "", result |-> RuleDict(rules'[Len(rules')])]
        /\ UNCHANGED <<transactions, classifications, feedbacks>>

\* A classification reads the store and writes nothing, so a classification
\* that follows another one reaches the states reached from the state before
\* it: classifications are explored from the states a store operation left.
StoreOperationLast == last.op \in {"init", "create_rule"}

\* Classifier.classify_transaction(transaction)
ClassifyTransaction ==
    \E tx \in ClassifyTxs :
      LET resolved == UserRules(tx) # <<>>
      IN \E reply \in IF resolved THEN {[kind |-> "none"]} ELSE SingleReplies(tx) :
        /\ StoreOperationLast
        /\ last' = [op |-> "classify_transaction", transaction |-> tx,
                    called |-> ~resolved, reply |-> reply,
                    result |-> ClassifierResult(tx, reply)]
        /\ UNCHANGED <<rules, transactions, classifications, feedbacks, nextId, now>>

\* the sequences of replies to the one-by-one calls for txs
SingleRepliesFor(txs) ==
    {singles \in [1..Len(txs) ->
                     {[kind |-> "raise", error |-> "timeout"],
                      [kind |-> "text", content |-> "sorry"], [kind |-> "answer"]}] :
        TRUE}

\* the reply of call k: an answer is the model's answer about txs[k]
ReplyOf(txs, singles) ==
    [k \in 1..Len(singles) |->
        IF singles[k].kind = "answer"
        THEN [kind |-> "object", fields |-> ModelAnswer(txs[k])]
        ELSE singles[k]]

\* Classifier.classify_transactions(transactions)
ClassifyTransactions ==
    /\ StoreOperationLast
    /\ \E n \in 0..MaxBatch :
      \E txs \in [1..n -> ClassifyTxs] :
        LET results == FirstPass(txs)
            ai_transactions == AiTransactions(results)
            m == Len(ai_transactions)
        IN IF m = 0
           THEN /\ last' = [op |-> "classify_transactions", transactions |-> txs,
                            called |-> FALSE, constructed |-> FALSE,
                            batch_calls |-> <<>>,
                            results |-> SecondPass(results, <<>>)]
                /\ UNCHANGED <<rules, transactions, classifications, feedbacks,
                               nextId, now>>
           ELSE \E batch \in BatchReplies(ai_transactions) :
                \E singles \in IF FallsBack(m, batch)
                               THEN SingleRepliesFor(ai_transactions) ELSE {<<>>} :
                  LET replies == ReplyOf(ai_transactions, singles)
                      ai_results == OpenAIProvider_batch_classify(m, batch, replies)
                  IN /\ last' = [op |-> "classify_transactions", transactions |-> txs,
                                 called |-> TRUE, constructed |-> TRUE,
                                 batch_calls |-> <<ai_transactions>>,
                                 fell_back |-> FallsBack(m, batch),
                                 singles |-> replies, ai_results |-> ai_results,
                                 results |-> SecondPass(results, ai_results)]
                     /\ UNCHANGED <<rules, transactions, classifications, feedbacks,
                                    nextId, now>>

NextClassify == ClassifyCreateRule \/ ClassifyTransaction \/ ClassifyTransactions

SpecClassify == InitClassify /\ [][NextClassify]_vars

----------------------------------------------------------------------------
(* Provider specification: batch_classify called directly, for batches on
   both sides of BatchPromptMax *)

\* the largest batch handed to the provider
MaxProviderBatch == 11

\* a batch of n transactions, alternating between the two of ClassifyTxs
ProviderBatch(n) ==
    [k \in 1..n |-> CHOOSE tx \in ClassifyTxs : tx.id = (IF k % 2 = 1 THEN "t1" ELSE "t2")]

\* the outcomes of the chat completion for the batch prompt: those of
\* BatchReplies, content that is no JSON, an empty array, and an array with
\* one entry more than the prompt has transactions
ProviderBatchReplies(txs) ==
    BatchReplies(txs) \cup
    {[kind |-> "text", content |-> "sorry"],
     [kind |-> "array", entries |-> <<>>],
     [kind |-> "array",
      entries |-> [k \in 1..(Len(txs) + 1) |->
                      BatchEntry(txs, IF k > Len(txs) THEN 1 ELSE k)]]}

\* the outcomes of the single calls: every call answers, or one call fails
\* or returns content that is no JSON
ProviderSingleReplies(txs) ==
    {[k \in 1..Len(txs) |-> IF k = f THEN bad ELSE [kind |-> "answer"]] :
        f \in 0..Len(txs),
        bad \in {[kind |-> "raise", error |-> "timeout"],
                 [kind |-> "text", content |-> "sorry"]}}

\* OpenAIProvider.batch_classify(transactions, chart_of_accounts, historical_rules);
\* the call reads and writes no stored state
BatchClassify ==
    /\ StoreOperationLast
    /\ \E n \in 1..MaxProviderBatch :
         LET txs == ProviderBatch(n)
         IN \E batch \in IF n <= BatchPromptMax THEN ProviderBatchReplies(txs)
                          ELSE {[kind |-> "none"]} :
            \E singles \in IF FallsBack(n, batch) THEN ProviderSingleReplies(txs)
                            ELSE {<<>>} :
              LET replies == ReplyOf(txs, singles)
              IN last' = [op |-> "batch_classify", transactions |-> txs,
                          batch |-> batch, fell_back |-> FallsBack(n, batch),
                          singles |-> replies,
                          results |-> OpenAIProvider_batch_classify(n, batch, replies)]
    /\ UNCHANGED <<rules, transactions, classifications, feedbacks, nextId, now>>

NextProvider == BatchClassify

SpecProvider == InitClassify /\ [][NextProvider]_vars

\* the same calls on a store that holds about ListLimit rules generated from feedback
InitClassifyFull ==
    /\ rules \in {StoreOf(ListLimit - 1), StoreOf(ListLimit)}
    /\ transactions = <<>>
    /\ classifications = <<>>
    /\ feedbacks = <<>>
    /\ nextId = 1
    /\ now = MaxClock
    /\ last = [op |-> "init"]

NextClassifyFull == ClassifyCreateRule \/ ClassifyTransaction

SpecClassifyFull == InitClassifyFull /\ [][NextClassifyFull]_vars

\* the transactions matched against the large store: those of ClassifyTxs, one
\* the stored rules match, and one that both kinds of rule match
MatchStoredTxs ==
    ClassifyTxs \cup {[id |-> "t3", peer |-> <<"z">>],
                      [id |-> "t4", peer |-> <<"a", "z">>, item |-> <<"b">>]}

\* RuleRepository.match_transaction(peer, item, category)
MatchStoredTransaction ==
    \E tx \in MatchStoredTxs :
        /\ StoreOperationLast
        /\ last' = [op |-> "match_transaction", peer |-> Get(tx, "peer"),
                    item |-> Get(tx, "item"), category |-> Get(tx, "category"),
                    result |-> RuleRepository_match_transaction(
                                   Get(tx, "peer"), Get(tx, "item"), Get(tx, "category"))]
        /\ UNCHANGED <<rules, transactions, classifications, feedbacks, nextId, now>>

NextMatchFull == ClassifyCreateRule \/ MatchStoredTransaction

\* match_transaction on a store that holds about ListLimit rules
SpecMatchFull == InitClassifyFull /\ [][NextMatchFull]_vars

----------------------------------------------------------------------------
(* OpenAIProvider._classify_one_by_one as concurrent calls: asyncio.gather
   starts one classify per transaction, the calls complete one at a time in
   any order, and gather returns when none is pending.  The call in progress
   is held in last. *)

\* the largest number of concurrent calls
MaxGather == 3

\* n distinct transactions
GatherBatch(n) ==
    [k \in 1..n |->
        CHOOSE tx \in MatchStoredTxs : tx.id = <<"t1", "t2", "t3", "t4">>[((k - 1) % 4) + 1]]

\* a list of results in the order in which the calls completed
GatherInCompletionOrder(slots, completed) ==
    [i \in 1..Len(completed) |-> slots[completed[i]]]

\* the list asyncio.gather returns: the result of the k-th awaitable at
\* position k
Gather(slots, completed) ==
    [k \in 1..Len(completed) |-> slots[k]]

\* tasks = [self.classify(tx, ...) for tx in transactions]; gather starts them
StartOneByOne ==
    /\ last.op = "init"
    /\ \E n \in 1..MaxGather :
         \E singles \in SingleRepliesFor(GatherBatch(n)) :
           last' = [op |-> "classify_one_by_one", transactions |-> GatherBatch(n),
                    replies |-> ReplyOf(GatherBatch(n), singles),
                    pending |-> 1..n, completed |-> <<>>,
                    slots |-> [k \in {} |-> <<>>], returned |-> FALSE]
    /\ UNCHANGED <<rules, transactions, classifications, feedbacks, nextId, now>>

\* one pending classify call ends: with the parsed answer, or in its except
\* branch with the degraded default
CompleteCall ==
    /\ last.op = "classify_one_by_one"
    /\ \E k \in last.pending :
         last' = [last EXCEPT
                    !.pending = @ \ {k},
                    !.completed = Append(@, k),
                    !.slots = [j \in DOMAIN @ \cup {k} |->
                                  IF j = k THEN OpenAIProvider_classify(last.replies[k])
                                  ELSE @[j]]]
    /\ UNCHANGED <<rules, transactions, classifications, feedbacks, nextId, now>>

\* every call has ended: "return await asyncio.gather(*tasks)"
GatherReturns ==
    /\ last.op = "classify_one_by_one"
    /\ last.pending = {}
    /\ ~last.returned
    /\ last' = [op |-> "classify_one_by_one", transactions |-> last.transactions,
                replies |-> last.replies, pending |-> {},
                completed |-> last.completed, slots |-> last.slots,
                returned |-> TRUE, results |-> Gather(last.slots, last.completed)]
    /\ UNCHANGED <<rules, transactions, classifications, feedbacks, nextId, now>>

NextGather == StartOneByOne \/ CompleteCall \/ GatherReturns

SpecGather == InitClassify /\ [][NextGather]_vars

----------------------------------------------------------------------------
(* RuleEngine.export_rules_to_deg_format *)

\* mapping[key]["account"] = account on a dict that keeps insertion order
MappingPut(mapping, key, account) ==
    IF \E i \in 1..Len(mapping) : mapping[i].key = key
    THEN LET i == CHOOSE j \in 1..Len(mapping) : mapping[j].key = key
         IN SubSeq(mapping, 1, i - 1) \o <<[key |-> key, account |-> account]>>
            \o SubSeq(mapping, i + 1, Len(mapping))
    ELSE Append(mapping, [key |-> key, account |-> account])

RECURSIVE MappingPutAll(_, _, _)
\* "for peer in peer_conditions: ..." and "for item in item_conditions: ..."
MappingPutAll(mapping, patterns, account) ==
    IF patterns = <<>> THEN mapping
    ELSE MappingPutAll(MappingPut(mapping, Head(patterns), account),
                       Tail(patterns), account)

\* the peer patterns of a rule, then its item patterns
ExportPatterns(rule) ==
    LET conditions == JsonLoads(rule.conditions)
    IN (IF "peer" \in DOMAIN conditions THEN AsList(conditions["peer"]) ELSE <<>>)
       \o (IF "item" \in DOMAIN conditions THEN AsList(conditions["item"]) ELSE <<>>)

RECURSIVE ExportMapping(_, _, _, _)
\* "for rule in rules: ..." over listed[lo..hi], in order: the first half of
\* the range, then the second half on the mapping the first half left
ExportMapping(mapping, listed, lo, hi) ==
    IF lo > hi THEN mapping
    ELSE IF lo = hi
         THEN MappingPutAll(mapping, ExportPatterns(listed[lo]), listed[lo].account)
         ELSE LET mid == (lo + hi) \div 2
              IN CHOOSE result \in
                    {ExportMapping(half, listed, mid + 1, hi) :
                        half \in {ExportMapping(mapping, listed, lo, mid)}} : TRUE

\* the mapping that yaml.dump writes, entry by entry in insertion order
export_rules_to_deg_format ==
    LET listed == RuleRepository_list_all(0, ListLimit)
    IN ExportMapping(<<>>, listed, 1, Len(listed))

\* the conditions of the rules created before an export
ExportConditions ==
    {[k \in {"peer"} |-> StrVal(<<"a">>)],
     [k \in {"item"} |-> StrVal(<<"a">>)],
     [k \in {"peer", "item"} |->
        IF k = "peer" THEN ListVal(<< <<"a">>, <<"z">> >>) ELSE StrVal(<<"b">>)],
     [k \in {"item"} |-> ListVal(<< <<"b">>, <<"z">> >>)],
     [k \in {"category"} |-> StrVal(<<"a">>)]}

\* RuleEngine.create_rule before an export
ExportCreateRule ==
    \E conditions \in ExportConditions, t \in ClockReadings :
        /\ nextId <= MaxClassifyRules
        /\ rules' = RuleRepository_create(nextId, <<"rule", ToString(nextId)>>,
                        conditions, AccountOfRule[nextId], 10, "user", t)
        /\ nextId' = nextId + 1
        /\ now' = t
        /\ last' = [op |-> "create_rule", conditions |-> conditions,
                    raised |-> "", result |-> RuleDict(rules'[Len(rules')])]
        /\ UNCHANGED <<transactions, classifications, feedbacks>>

\* RuleEngine.export_rules_to_deg_format()
ExportRules ==
    /\ StoreOperationLast
    /\ last' = [op |-> "export_rules_to_deg_format",
                result |-> export_rules_to_deg_format]
    /\ UNCHANGED <<rules, transactions, classifications, feedbacks, nextId, now>>

NextExportFull == ExportCreateRule \/ ExportRules

\* exports of a store that holds about ListLimit rules
SpecExportFull == InitClassifyFull /\ [][NextExportFull]_vars

----------------------------------------------------------------------------
(* Classifier._get_historical_rules and the provider call that receives it *)

\* the page size _get_historical_rules asks for
HistoricalLimit == 50

\* the text returned for a store without rules, as a text of one line
NoHistoricalRules == << <<"No historical rules">> >>

\* f"- {rule.name}: {conditions} -> {rule.account}", piece by piece
HistoricalLine(rule) ==
    <<"- ", rule.name, ": ", JsonLoads(rule.conditions), " -> ", rule.account>>

\* Classifier._get_historical_rules(): the lines that "\n".join joins
Classifier_get_historical_rules ==
    LET listed == RuleRepository_list_all(0, HistoricalLimit)
    IN IF listed = <<>> THEN NoHistoricalRules
       ELSE [i \in 1..Len(listed) |-> HistoricalLine(listed[i])]

InitHistory ==
    /\ rules \in {StoreOf(0), StoreOf(HistoricalLimit - 1), StoreOf(HistoricalLimit)}
    /\ transactions = <<>>
    /\ classifications = <<>>
    /\ feedbacks = <<>>
    /\ nextId = 1
    /\ now = MaxClock
    /\ last = [op |-> "init"]

\* Classifier.classify_transaction(transaction), with the arguments of the
\* provider call when there is one
HistoryClassifyTransaction ==
    \E tx \in ClassifyTxs :
      LET resolved == UserRules(tx) # <<>>
      IN \E reply \in IF resolved THEN {[kind |-> "none"]} ELSE SingleReplies(tx) :
        /\ StoreOperationLast
        /\ last' = [op |-> "classify_transaction", transaction |-> tx,
                    calls |-> IF resolved THEN <<>>
                              ELSE << [transaction |-> tx,
                                       historical_rules |->
                                           Classifier_get_historical_rules] >>,
                    result |-> ClassifierResult(tx, reply)]
        /\ UNCHANGED <<rules, transactions, classifications, feedbacks, nextId, now>>

NextHistory == ClassifyCreateRule \/ HistoryClassifyTransaction

SpecHistory == InitHistory /\ [][NextHistory]_vars

----------------------------------------------------------------------------
(* ClassificationRepository, FeedbackRepository *)

\* an insert that replaces the transaction's existing rows
ClassificationRepository_upsert(rows, id, transaction_id, account, confidence, source, reasoning, t) ==
    LET Others(c) == c.transaction_id # transaction_id
    IN Append(SelectSeq(rows, Others),
              [id |-> id, transaction_id |-> transaction_id, account |-> account,
               confidence |-> confidence, source |-> source, reasoning |-> reasoning,
               created_at |-> t])

\* ClassificationRepository.create: the table after the insert
ClassificationRepository_create(rows, id, transaction_id, account, confidence, source, reasoning, t) ==
    Append(rows,
           [id |-> id, transaction_id |-> transaction_id, account |-> account,
            confidence |-> confidence, source |-> source, reasoning |-> reasoning,
            created_at |-> t])

\* ClassificationRepository.get_by_transaction_id: positions of the rows, in order
ClassificationRepository_get_by_transaction_id(transaction_id) ==
    LET Mine(i) == classifications[i].transaction_id = transaction_id
    IN SelectSeq([i \in 1..Len(classifications) |-> i], Mine)

\* min in place of max: the oldest row
OldestOf(positions) ==
    LET k == CHOOSE j \in 1..Len(positions) :
                /\ \A l \in 1..Len(positions) :
                      classifications[positions[l]].created_at
                         >= classifications[positions[j]].created_at
                /\ \A l \in 1..(j - 1) :
                      classifications[positions[l]].created_at
                         > classifications[positions[j]].created_at
    IN positions[k]

\* max(classifications, key=lambda c: c.created_at): the first maximal row
LatestOf(positions) ==
    LET k == CHOOSE j \in 1..Len(positions) :
                /\ \A l \in 1..Len(positions) :
                      classifications[positions[l]].created_at
                         <= classifications[positions[j]].created_at
                /\ \A l \in 1..(j - 1) :
                      classifications[positions[l]].created_at
                         < classifications[positions[j]].created_at
    IN positions[k]

\* an edit that loses the row it was meant to change
ClassificationRepository_edit_dropping(classification_id, account) ==
    LET Others(c) == c.id # classification_id
    IN SelectSeq(classifications, Others)

\* ClassificationRepository.update_account: the table after the update
ClassificationRepository_update_account(classification_id, account) ==
    LET found == {i \in 1..Len(classifications) :
                     classifications[i].id = classification_id}
    IN IF found = {} THEN classifications
       ELSE LET first == CHOOSE i \in found : \A j \in found : i <= j
            IN [classifications EXCEPT ![first] =
                   [@ EXCEPT !.account = account, !.source = "user"]]

\* FeedbackRepository.create: the table after the insert
FeedbackRepository_create(id, transaction_id, action, original_account, corrected_account, t) ==
    Append(feedbacks,
           [id |-> id, transaction_id |-> transaction_id,
            original_account |-> original_account,
            corrected_account |-> corrected_account, action |-> action,
            created_at |-> t])

\* "if corrected_account" for an Optional[str]
Truthy(account) == account # None /\ account # ""

\* record_feedback: the classifications table after the call
RetargetLatest(transaction_id, corrected_account, action) ==
    IF action = "modify" /\ Truthy(corrected_account)
    THEN LET mine == ClassificationRepository_get_by_transaction_id(transaction_id)
         IN IF mine # <<>>
            THEN ClassificationRepository_update_account(
                     classifications[LatestOf(mine)].id, corrected_account)
            ELSE classifications
    ELSE classifications

----------------------------------------------------------------------------
(* Persistence specification: classify and persist, feedback, direct edits *)

\* one user rule on the payee "a": the first of ClassifyTxs is resolved by it
InitStore ==
    /\ rules = << NewRule(0, <<"rule", "0">>, [k \in {"peer"} |-> StrVal(<<"a">>)],
                          "Assets:One", 10, "user", 0) >>
    /\ transactions = <<>>
    /\ classifications = <<>>
    /\ feedbacks = <<>>
    /\ nextId = 1
    /\ now = 0
    /\ last = [op |-> "init"]

\* Classifier.save_classification(transaction_id, classification), with the
\* classification classify_transaction returned for the transaction
SaveClassification ==
    /\ nextId <= MaxRows
    /\ \E tx \in ClassifyTxs :
         \E reply \in IF UserRules(tx) # <<>> THEN {[kind |-> "none"]}
                       ELSE {[kind |-> "raise", error |-> "timeout"],
                             [kind |-> "object", fields |-> ModelAnswer(tx)]} :
           LET classification == ClassifierResult(tx, reply)
           IN \E t \in ClockReadings :
                /\ classifications' =
                      ClassificationRepository_create(classifications, nextId, tx.id,
                          classification.account, classification.confidence,
                          classification.source,
                          IF "reasoning" \in DOMAIN classification
                          THEN classification.reasoning ELSE <<>>, t)
                /\ nextId' = nextId + 1
                /\ now' = t
                /\ last' = [op |-> "save_classification", transaction_id |-> tx.id]
                /\ UNCHANGED <<rules, transactions, feedbacks>>

RECURSIVE PersistAll(_, _, _, _)
\* the loop of the classify route: one ClassificationRepository.create per
\* result, the k-th reading the clock at times[k]
PersistAll(rows, results, id, times) ==
    IF results = <<>> THEN rows
    ELSE LET r == Head(results)
         IN PersistAll(ClassificationRepository_create(rows, id, r.transaction.id,
                           r.account, r.confidence, r.source, r.reasoning,
                           Head(times)),
                       Tail(results), id + 1, Tail(times))

\* the clock readings of n successive inserts
ClockReadingsFor(n) ==
    {times \in [1..n -> now..(IF now < MaxClock THEN now + 1 ELSE now)] :
        \A k \in 1..(n - 1) : times[k] <= times[k + 1]}

\* the provider's behaviours during a posted batch: the batch call fails or
\* answers every transaction in order; each single call fails or answers
RouteBatchReplies(txs) ==
    {[kind |-> "raise", error |-> "timeout"],
     [kind |-> "array", entries |-> [k \in 1..Len(txs) |-> BatchEntry(txs, k)]]}

RouteSingleRepliesFor(txs) ==
    {singles \in SingleRepliesFor(txs) :
        \A k \in 1..Len(txs) : singles[k].kind # "text"}

\* POST /classify: classify_transactions, then one row per result
ClassifyRoute ==
    \E n \in 1..MaxRouteBatch :
      /\ nextId + n <= MaxRows + 1
      /\ \E txs \in [1..n -> ClassifyTxs] :
           LET results == FirstPass(txs)
               ai_transactions == AiTransactions(results)
               m == Len(ai_transactions)
           IN \E batch \in RouteBatchReplies(ai_transactions) :
              \E singles \in IF FallsBack(m, batch)
                             THEN RouteSingleRepliesFor(ai_transactions) ELSE {<<>>} :
                LET replies == ReplyOf(ai_transactions, singles)
                    ai_results == IF m = 0 THEN <<>>
                                  ELSE OpenAIProvider_batch_classify(m, batch, replies)
                    final == SecondPass(results, ai_results)
                IN \E times \in ClockReadingsFor(n) :
                     /\ classifications' =
                           PersistAll(classifications, final, nextId, times)
                     /\ nextId' = nextId + n
                     /\ now' = times[n]
                     /\ last' = [op |-> "classify_route", count |-> n]
                     /\ UNCHANGED <<rules, transactions, feedbacks>>

\* the (action, corrected_account) pairs sent as feedback
FeedbackInputs ==
    {<<"accept", "Income:Other">>, <<"reject", None>>, <<"modify", None>>,
     <<"modify", "">>, <<"modify", "Income:Other">>}

\* uuid4 for a feedback row: an id no stored feedback row has; the ids of the
\* two tables are drawn independently
FreshFeedbackId ==
    LET used == {0 - feedbacks[i].id : i \in 1..Len(feedbacks)} \cup {0}
    IN 0 - (1 + CHOOSE m \in used : \A u \in used : u <= m)

\* FeedbackHandler.record_feedback(transaction_id, original, corrected, action)
RecordFeedback ==
    \E tx \in ClassifyTxs, input \in FeedbackInputs, t \in ClockReadings :
      LET action == input[1]
          corrected_account == input[2]
      IN
        /\ Len(feedbacks) < MaxFeedback
        /\ feedbacks' = FeedbackRepository_create(FreshFeedbackId, tx.id, action,
                                                  "Expenses:Misc", corrected_account, t)
        /\ classifications' = RetargetLatest(tx.id, corrected_account, action)
        /\ now' = t
        /\ last' = [op |-> "record_feedback", transaction_id |-> tx.id,
                    action |-> action, corrected_account |-> corrected_account]
        /\ UNCHANGED <<rules, transactions, nextId>>

NextStore == SaveClassification \/ ClassifyRoute \/ RecordFeedback

SpecStore == InitStore /\ [][NextStore]_vars

----------------------------------------------------------------------------
(* Reclassification: a transaction is classified and persisted, corrected by
   the user, classified and persisted again, and corrected again *)

\* the largest number of corrections
MaxOverrides == 2

\* FeedbackHandler.record_feedback(transaction_id, original, corrected, "modify")
OverrideFeedback ==
    /\ Len(feedbacks) < MaxOverrides
    /\ \E tx \in ClassifyTxs, corrected_account \in {"Income:Other", "Income:Two"},
          t \in ClockReadings :
         /\ feedbacks' = FeedbackRepository_create(FreshFeedbackId, tx.id, "modify",
                                                   "Expenses:Misc", corrected_account, t)
         /\ classifications' = RetargetLatest(tx.id, corrected_account, "modify")
         /\ now' = t
         /\ last' = [op |-> "record_feedback", transaction_id |-> tx.id,
                     action |-> "modify", corrected_account |-> corrected_account]
    /\ UNCHANGED <<rules, transactions, nextId>>

NextReclassify == SaveClassification \/ OverrideFeedback

SpecReclassify == InitStore /\ [][NextReclassify]_vars

----------------------------------------------------------------------------
(* Lifecycle specification: rows are created, edited and cascaded away *)

\* TransactionRepository.get_by_id: the positions of the rows with that id
TransactionRepository_get_by_id(transaction_id) ==
    {i \in 1..Len(transactions) : transactions[i].id = transaction_id}

\* a cascade that empties the table
CascadeEverything(rows, transaction_id) == <<>>

\* cascade="all, delete-orphan": the rows left after deleting a transaction
Cascade(rows, transaction_id) ==
    LET Others(r) == r.transaction_id # transaction_id
    IN SelectSeq(rows, Others)

\* the transactions of ClassifyTxs are stored; one user rule resolves the
\* first, and one rule generated from feedback matches neither
InitLife ==
    /\ rules = << NewRule(0, <<"rule", "0">>, [k \in {"peer"} |-> StrVal(<<"a">>)],
                          "Assets:One", 10, "user", 0) >> \o StoreOf(1)
    /\ transactions =
          << [id |-> "t1", peer |-> <<"a">>, item |-> <<"b">>, category |-> <<>>],
             [id |-> "t2", peer |-> <<"b">>, item |-> NoneText, category |-> <<"a">>] >>
    /\ classifications = <<>>
    /\ feedbacks = <<>>
    /\ nextId = 1
    /\ now = MaxClock
    /\ last = [op |-> "init"]

\* the provider answers every transaction of a batch, in order
AnsweredBatch(txs) ==
    [kind |-> "array", entries |-> [k \in 1..Len(txs) |-> BatchEntry(txs, k)]]

\* POST /classify while the provider answers
LifeClassifyRoute ==
    \E n \in 1..MaxRouteBatch :
      /\ nextId + n <= MaxRows + 1
      /\ \E txs \in [1..n -> ClassifyTxs] :
           LET results == FirstPass(txs)
               ai_transactions == AiTransactions(results)
               m == Len(ai_transactions)
               ai_results == IF m = 0 THEN <<>>
                             ELSE OpenAIProvider_batch_classify(
                                      m, AnsweredBatch(ai_transactions), <<>>)
               final == SecondPass(results, ai_results)
           IN /\ classifications' =
                    PersistAll(classifications, final, nextId, [k \in 1..n |-> now])
              /\ nextId' = nextId + n
              /\ last' = [op |-> "classify_route"]
              /\ UNCHANGED <<rules, transactions, feedbacks, now>>

\* Classifier.save_classification of what classify_transaction returned
LifeSaveClassification ==
    /\ nextId <= MaxRows
    /\ \E tx \in ClassifyTxs :
         LET classification ==
                ClassifierResult(tx, [kind |-> "object", fields |-> ModelAnswer(tx)])
         IN /\ classifications' =
                  ClassificationRepository_create(classifications, nextId, tx.id,
                      classification.account, classification.confidence,
                      classification.source, classification.reasoning, now)
            /\ nextId' = nextId + 1
            /\ last' = [op |-> "save_classification"]
            /\ UNCHANGED <<rules, transactions, feedbacks, now>>

\* FeedbackHandler.record_feedback: an accepted and a corrected classification
LifeRecordFeedback ==
    \E tx \in ClassifyTxs, input \in {<<"accept", None>>, <<"modify", "Income:Other">>} :
        /\ Len(feedbacks) < MaxFeedback
        /\ feedbacks' = FeedbackRepository_create(FreshFeedbackId, tx.id, input[1],
                                                  "Expenses:Misc", input[2], now)
        /\ classifications' = RetargetLatest(tx.id, input[2], input[1])
        /\ last' = [op |-> "record_feedback"]
        /\ UNCHANGED <<rules, transactions, nextId, now>>

\* PUT /classifications/{classification_id}: a direct edit of the account
UpdateClassification ==
    \E classification_id \in 1..nextId, account \in {"Equity:Edit"} :
        /\ classifications' =
              ClassificationRepository_update_account(classification_id, account)
        /\ last' = [op |-> "update_classification",
                    found |-> \E i \in 1..Len(classifications) :
                                 classifications[i].id = classification_id]
        /\ UNCHANGED <<rules, transactions, feedbacks, nextId, now>>

\* TransactionRepository.delete(transaction_id)
DeleteTransaction ==
    \E transaction_id \in {"t1", "t2"} :
        LET found == TransactionRepository_get_by_id(transaction_id)
            Others(tx) == tx.id # transaction_id
        IN /\ IF found # {}
              THEN /\ transactions' = SelectSeq(transactions, Others)
                   /\ classifications' = Cascade(classifications, transaction_id)
                   /\ feedbacks' = Cascade(feedbacks, transaction_id)
              ELSE UNCHANGED <<transactions, classifications, feedbacks>>
           /\ last' = [op |-> "delete_transaction", transaction_id |-> transaction_id,
                       result |-> found # {}]
           /\ UNCHANGED <<rules, nextId, now>>

\* RuleEngine.delete_rule on the stored auto rule
LifeDeleteRule ==
    LET rule_id == 0 - 1
        Keep(rule) == rule.id # rule_id
    IN /\ rules' = SelectSeq(rules, Keep)
       /\ last' = [op |-> "delete_rule", rule_id |-> rule_id,
                   result |-> RuleRepository_get_by_id(rule_id) # {}]
       /\ UNCHANGED <<transactions, classifications, feedbacks, nextId, now>>

NextLife ==
    \/ LifeClassifyRoute
    \/ LifeSaveClassification
    \/ LifeRecordFeedback
    \/ UpdateClassification
    \/ DeleteTransaction
    \/ LifeDeleteRule

SpecLife == InitLife /\ [][NextLife]_vars

----------------------------------------------------------------------------
(* FeedbackHandler: rule generation and statistics *)

\* FeedbackRepository.list_all(db, skip, limit): offset(skip).limit(limit)
FeedbackRepository_list_all(skip, limit) ==
    SubSeq(feedbacks, skip + 1,
           IF Len(feedbacks) < skip + limit THEN Len(feedbacks) ELSE skip + limit)

\* a listing that ignores the limit
FeedbackRepository_list_everything(skip, limit) == feedbacks

\* a nullable column inside an f-string: None prints as "None"
Str(x) == IF x = NoneText THEN <<"N", "o", "n", "e">> ELSE x

\* f"{transaction.peer}|{transaction.item}|{transaction.category}"
PatternKey(tx) ==
    Str(tx.peer) \o <<"|">> \o Str(tx.item) \o <<"|">> \o Str(tx.category)

\* the entries appended to patterns[...], in the order of the feedback read
PatternItems ==
    LET IsModify(f) == f.action = "modify"
        modify_feedbacks == SelectSeq(FeedbackRepository_list_all(0, ListLimit), IsModify)
        Found(f) == TransactionRepository_get_by_id(f.transaction_id) # {}
        kept == SelectSeq(modify_feedbacks, Found)
    IN [k \in 1..Len(kept) |->
          LET found == TransactionRepository_get_by_id(kept[k].transaction_id)
              tx == transactions[CHOOSE i \in found : \A j \in found : i <= j]
          IN [transaction_id |-> tx.id, peer |-> tx.peer, item |-> tx.item,
              category |-> tx.category,
              corrected_account |-> kept[k].corrected_account,
              pattern_key |-> PatternKey(tx)]]

\* patterns.items(): the groups in the order their keys were first inserted
Patterns ==
    LET items == PatternItems
        IsFirst(i) == \A j \in 1..(i - 1) : items[j].pattern_key # items[i].pattern_key
        order == SelectSeq([i \in 1..Len(items) |-> i], IsFirst)
    IN [g \in 1..Len(order) |->
          LET SameKey(it) == it.pattern_key = items[order[g]].pattern_key
          IN SelectSeq(items, SameKey)]

\* len(items) >= min_confidence and len(accounts) == 1
Generates(items, min_confidence) ==
    /\ Len(items) >= min_confidence
    /\ Cardinality({items[k].corrected_account : k \in 1..Len(items)}) = 1

RECURSIVE GenerateRules(_, _, _, _, _)
\* the loop over patterns.items(): each generating group inserts a rule; the
\* insert of a rule without an account violates NOT NULL and ends the call
GenerateRules(rows, groups, min_confidence, id, times) ==
    IF groups = <<>> THEN [rules |-> rows, raised |-> ""]
    ELSE LET items == Head(groups)
         IN IF Generates(items, min_confidence)
            THEN IF items[1].corrected_account = None
                 THEN [rules |-> rows, raised |-> "IntegrityError"]
                 ELSE GenerateRules(
                          Append(rows,
                                 NewRule(id,
                                         AutoName(items[1].peer, items[1].item,
                                                  items[1].category, ToString(id)),
                                         AutoConditions(items[1].peer, items[1].item,
                                                        items[1].category),
                                         items[1].corrected_account, 9, "auto",
                                         Head(times))),
                          Tail(groups), min_confidence, id + 1, Tail(times))
            ELSE GenerateRules(rows, Tail(groups), min_confidence, id, times)

RECURSIVE Gcd(_, _)
Gcd(a, b) == IF b = 0 THEN a ELSE Gcd(b, a % b)

\* the value of n / d, as a fraction in lowest terms
Ratio(n, d) == <<n \div Gcd(n, d), d \div Gcd(n, d)>>

\* sum(1 for f in feedbacks if f.action == action)
CountAction(read, action) ==
    Cardinality({i \in 1..Len(read) : read[i].action = action})

\* FeedbackHandler.get_statistics()
Statistics ==
    LET read == FeedbackRepository_list_all(0, ListLimit)
        total == Len(read)
        accept == CountAction(read, "accept")
        modify == CountAction(read, "modify")
    IN [total |-> total, accept |-> accept,
        reject |-> CountAction(read, "reject"), modify |-> modify,
        accept_rate |-> IF total > 0 THEN Ratio(accept, total) ELSE <<0, 1>>,
        modify_rate |-> IF total > 0 THEN Ratio(modify, total) ELSE <<0, 1>>]

----------------------------------------------------------------------------
(* Learner specification: feedback is recorded, analysed and counted *)

\* the transactions table: two transactions with the same triple, one whose
\* fields contain the separator of the pattern key, and the one the stored
\* history is about
LearnTransactions ==
    << [id |-> "t0", peer |-> <<"z">>, item |-> NoneText, category |-> <<>>],
       [id |-> "t1", peer |-> <<"a", "|", "b">>, item |-> <<"c">>, category |-> <<>>],
       [id |-> "t2", peer |-> <<"a", "|", "b">>, item |-> <<"c">>, category |-> <<>>],
       [id |-> "t3", peer |-> <<"a">>, item |-> <<"b", "|", "c">>, category |-> <<>>] >>

\* a history of n accepted classifications of the transaction "t0"
FeedbackStoreOf(n) ==
    [i \in 1..n |->
        [id |-> 0 - i, transaction_id |-> "t0", original_account |-> "Expenses:Misc",
         corrected_account |-> None, action |-> "accept", created_at |-> 0]]

InitLearn ==
    /\ rules = <<>>
    /\ transactions = LearnTransactions
    /\ classifications = <<>>
    /\ feedbacks \in {FeedbackStoreOf(0), FeedbackStoreOf(ListLimit - 1)}
    /\ nextId = 1
    /\ now = 0
    /\ last = [op |-> "init"]

\* the (action, corrected_account) pairs the user sends
LearnFeedbackInputs ==
    {<<"accept", None>>, <<"reject", None>>, <<"modify", "Income:Other">>,
     <<"modify", "Income:Two">>, <<"modify", None>>, <<"modify", "">>}

\* FeedbackHandler.record_feedback on the transactions of LearnTransactions
LearnRecordFeedback ==
    \E transaction_id \in {"t1", "t2", "t3"}, input \in LearnFeedbackInputs,
       t \in ClockReadings :
        LET Recorded(f) == f.id > 0
        IN /\ Len(SelectSeq(feedbacks, Recorded)) < MaxLearnFeedback
           /\ feedbacks' = FeedbackRepository_create(nextId, transaction_id, input[1],
                                                     "Expenses:Misc", input[2], t)
           /\ classifications' = RetargetLatest(transaction_id, input[2], input[1])
           /\ nextId' = nextId + 1
           /\ now' = t
           /\ last' = [op |-> "record_feedback", transaction_id |-> transaction_id,
                       action |-> input[1], corrected_account |-> input[2]]
           /\ UNCHANGED <<rules, transactions>>

\* FeedbackHandler.analyze_feedback_and_generate_rules(min_confidence)
AnalyzeFeedback ==
    \E min_confidence \in 1..MaxLearnFeedback :
      LET groups == Patterns
          Generating(items) == Generates(items, min_confidence)
          n == Len(SelectSeq(groups, Generating))
      IN \E times \in ClockReadingsFor(n) :
           LET outcome == GenerateRules(rules, groups, min_confidence, nextId, times)
               created == Len(outcome.rules) - Len(rules)
           IN /\ Len(outcome.rules) <= MaxLearnRules
              /\ rules' = outcome.rules
              /\ nextId' = nextId + created
              /\ now' = IF created > 0 THEN times[created] ELSE now
              /\ last' = [op |-> "analyze_feedback_and_generate_rules",
                          min_confidence |-> min_confidence,
                          raised |-> outcome.raised, created |-> created]
              /\ UNCHANGED <<transactions, classifications, feedbacks>>

\* FeedbackHandler.get_statistics()
GetStatistics ==
    /\ last' = [op |-> "get_statistics", result |-> Statistics]
    /\ UNCHANGED <<rules, transactions, classifications, feedbacks, nextId, now>>

NextLearn == LearnRecordFeedback \/ AnalyzeFeedback \/ GetStatistics

SpecLearn == InitLearn /\ [][NextLearn]_vars

----------------------------------------------------------------------------
(* The feedback router: the routes in the order of their registration, and
   the dispatch of a request to the first route that matches it *)

\* a segment of a route path: a literal or a path parameter
Literal(s) == [param |-> FALSE, text |-> s]
Param(s) == [param |-> TRUE, text |-> s]

\* the decorators of api/routes/feedback.py, top to bottom
FeedbackRoutes ==
    << [method |-> "POST", path |-> <<Literal("feedback")>>,
        endpoint |-> "record_feedback"],
       [method |-> "GET", path |-> <<Literal("feedback"), Param("transaction_id")>>,
        endpoint |-> "get_feedback_by_transaction"],
       [method |-> "GET", path |-> <<Literal("feedback")>>,
        endpoint |-> "list_feedback"],
       [method |-> "GET", path |-> <<Literal("feedback"), Literal("statistics")>>,
        endpoint |-> "get_feedback_statistics"],
       [method |-> "POST", path |-> <<Literal("feedback"), Literal("generate-rules")>>,
        endpoint |-> "generate_rules_from_feedback"] >>

\* whether the path of a request matches the path of a route: a parameter
\* takes any non-empty segment
PathMatches(route, path) ==
    /\ Len(route.path) = Len(path)
    /\ \A i \in 1..Len(path) :
          IF route.path[i].param THEN path[i] # "" ELSE route.path[i].text = path[i]

\* the router's loop over its routes: the first route that matches path and
\* method, 0 when there is none
Dispatch(method, path) ==
    LET full == {i \in 1..Len(FeedbackRoutes) :
                    /\ FeedbackRoutes[i].method = method
                    /\ PathMatches(FeedbackRoutes[i], path)}
    IN IF full # {} THEN CHOOSE i \in full : \A j \in full : i <= j
       ELSE 0

\* FeedbackRepository.get_by_transaction_id
FeedbackRepository_get_by_transaction_id(transaction_id) ==
    LET Mine(f) == f.transaction_id = transaction_id
    IN SelectSeq(feedbacks, Mine)

\* the paths of the GET requests sent
GetPaths ==
    {<<"feedback">>, <<"feedback", "statistics">>, <<"feedback", "t1">>,
     <<"feedback", "t3">>, <<"rules">>}

\* a GET request: the endpoint it is dispatched to and what that returns
HttpGet ==
    /\ last.op # "GET"
    /\ \E path \in GetPaths :
         LET i == Dispatch("GET", path)
             endpoint == IF i = 0 THEN "not_found" ELSE FeedbackRoutes[i].endpoint
         IN last' = [op |-> "GET", path |-> path, endpoint |-> endpoint,
                     response |->
                        CASE endpoint = "get_feedback_by_transaction" ->
                               FeedbackRepository_get_by_transaction_id(path[2])
                          [] endpoint = "list_feedback" ->
                               FeedbackRepository_list_all(0, ListLimit)
                          [] endpoint = "get_feedback_statistics" -> Statistics
                          [] OTHER -> <<>>]
    /\ UNCHANGED <<rules, transactions, classifications, feedbacks, nextId, now>>

NextRoutes == LearnRecordFeedback \/ HttpGet

SpecRoutes == InitLearn /\ [][NextRoutes]_vars

----------------------------------------------------------------------------
(* The learning loop: feedback, rule generation, then classification again *)

InitLoop ==
    /\ rules = <<>>
    /\ transactions = LearnTransactions
    /\ classifications = <<>>
    /\ feedbacks = FeedbackStoreOf(0)
    /\ nextId = 1
    /\ now = 0
    /\ last = [op |-> "init"]

\* Classifier.classify_transaction on a stored transaction; it reads the
\* store and writes nothing, so it is explored from the states a write left
LoopClassifyTransaction ==
    \E k \in 2..Len(LearnTransactions) :
      LET tx == LearnTransactions[k]
          resolved == UserRules(tx) # <<>>
      IN \E reply \in IF resolved THEN {[kind |-> "none"]} ELSE SingleReplies(tx) :
        /\ last.op # "classify_transaction"
        /\ last' = [op |-> "classify_transaction", transaction |-> tx,
                    called |-> ~resolved, reply |-> reply,
                    result |-> ClassifierResult(tx, reply)]
        /\ UNCHANGED <<rules, transactions, classifications, feedbacks, nextId, now>>

NextLoop == LearnRecordFeedback \/ AnalyzeFeedback \/ LoopClassifyTransaction

SpecLoop == InitLoop /\ [][NextLoop]_vars

----------------------------------------------------------------------------
(* C3 *)

\* s = prefix . p . suffix for some prefix and suffix
OccursIn(p, s) ==
    \E a \in 0..Len(s), b \in 0..Len(s) :
        /\ a + Len(p) + b = Len(s)
        /\ \A k \in 1..Len(p) : s[a + k] = p[k]

\* the patterns of a condition value, a single string being the one-element set
PatternSet(v) == IF v.isStr THEN {v.val} ELSE {v.val[i] : i \in DOMAIN v.val}

\* the truth of one condition key as the rule contract states it
ConditionTrue(k, v, peer, item, category) ==
    CASE k = "peer" -> \E p \in PatternSet(v) : OccursIn(p, peer)
      [] k = "item" -> \E p \in PatternSet(v) : OccursIn(p, item)
      [] k = "category" -> category \in PatternSet(v)

\* C3: the single stored rule is returned by match_transaction iff every
\* condition key present in it evaluates true: peer and item by substring of
\* any pattern, category by exact membership; a single string acts as the
\* one-element pattern set.
C3_MatchSemantics ==
    last.op = "match_transaction" =>
        LET conditions == JsonLoads(rules[1].conditions)
            holds == \A k \in DOMAIN conditions :
                        ConditionTrue(k, conditions[k], last.peer, last.item, last.category)
        IN /\ holds => last.result = rules
           /\ ~holds => last.result = <<>>

\* a category pattern that is a proper substring of the category is refused,
\* while the same pattern on peer is accepted
C3_Witness ==
    /\ last.op = "match_transaction"
    /\ last.category = <<"a", "b">>
    /\ last.peer = <<"a", "b">>
    /\ JsonLoads(rules[1].conditions) = [k \in {"category"} |-> StrVal(<<"a">>)]
    /\ last.result = <<>>

----------------------------------------------------------------------------
(* C9, C10 *)

\* C9: create_rule called with an empty conditions mapping fails with a
\* validation error and leaves the rule store unchanged.
C9_EmptyConditionsRejected ==
    [][(last'.op = "create_rule" /\ last' # last /\ DOMAIN last'.conditions = {})
          => (last'.raised = "ValidationError" /\ rules' = rules)]_vars

\* C10: every stored rule has a non-empty conditions mapping.
C10_ConditionsNeverEmpty ==
    \A i \in 1..Len(rules) : DOMAIN JsonLoads(rules[i].conditions) # {}

----------------------------------------------------------------------------
(* C1, C2, C4 *)

\* whether every condition of a stored rule is true of a transaction dict
Applies(rule, tx) ==
    LET conditions == JsonLoads(rule.conditions)
    IN \A k \in DOMAIN conditions :
          ConditionTrue(k, conditions[k], Get(tx, "peer"), Get(tx, "item"),
                        Get(tx, "category"))

\* the user rules of the whole store that apply to a transaction
MatchingUserRules(tx) ==
    {i \in 1..Len(rules) : rules[i].source = "user" /\ Applies(rules[i], tx)}

\* how many of the first i transactions no user rule resolves
AiRank(txs, i) == Cardinality({j \in 1..i : MatchingUserRules(txs[j]) = {}})

C2_UserRulePriority ==
    last.op = "classify_transaction" =>
        LET matched == MatchingUserRules(last.transaction)
        IN matched # {} =>
              /\ last.result.source = "rule"
              /\ \E i \in matched :
                    /\ \A j \in matched : rules[j].confidence <= rules[i].confidence
                    /\ last.result.account = rules[i].account
                    /\ last.result.confidence = rules[i].confidence

\* C4: when calls for single transactions fail (an exception or an
\* unparsable reply), classify_transactions still returns one result per
\* transaction; each failing transaction gets Expenses:Misc, confidence 0,
\* source "ai" and a reasoning carrying the error detail, and every other
\* transaction gets the rule result or the model's answer about it, as it
\* would without the failure.
C4_DegradeAndContinue ==
    (last.op = "classify_transactions" /\ last.called /\ last.fell_back) =>
        LET txs == last.transactions
            results == last.results
        IN /\ Len(results) = Len(txs)
           /\ \A i \in 1..Len(txs) :
                IF MatchingUserRules(txs[i]) # {}
                THEN results[i].source = "rule"
                ELSE LET reply == last.singles[AiRank(txs, i)]
                     IN /\ results[i].source = "ai"
                        /\ reply.kind = "raise" =>
                              /\ results[i].account = DefaultAccount
                              /\ results[i].confidence = 0
                              /\ results[i].reasoning[2] = reply.error
                        /\ reply.kind = "text" =>
                              /\ results[i].account = DefaultAccount
                              /\ results[i].confidence = 0
                              /\ results[i].reasoning[2] = reply.content
                        /\ reply.kind = "object" =>
                              /\ results[i].account = ModelAnswer(txs[i]).account
                              /\ results[i].confidence = ModelAnswer(txs[i]).confidence
                              /\ results[i].reasoning = ModelAnswer(txs[i]).reasoning

\* a batch of three where the call for the second transaction fails and the
\* other two are answered
C4_Witness ==
    /\ last.op = "classify_transactions"
    /\ last.called
    /\ last.fell_back
    /\ Len(last.results) = 3
    /\ Len(last.singles) = 3
    /\ last.singles[1].kind = "object"
    /\ last.singles[2].kind = "raise"
    /\ last.singles[3].kind = "object"
    /\ last.results[2].confidence = 0
    /\ last.results[1].confidence = 9
    /\ last.results[3].confidence = 9

----------------------------------------------------------------------------
(* C6, C7 *)

\* the positions of the classification rows of a transaction in a table
RowsOf(rows, transaction_id) ==
    {i \in 1..Len(rows) : rows[i].transaction_id = transaction_id}

\* C6: persisting classifications is append-only.  A save_classification call
\* adds exactly one row, and the classify route adds exactly one row per
\* result; every new row has an id that no other row has, and every row that
\* existed before is still there with all its fields unchanged, so a
\* transaction that is persisted again has one more row than before.
C6_AppendOnly ==
    [][ (last'.op \in {"save_classification", "classify_route"})
        => LET old == Len(classifications)
               added == IF last'.op = "save_classification" THEN 1 ELSE last'.count
           IN /\ Len(classifications') = old + added
              /\ SubSeq(classifications', 1, old) = classifications
              /\ \A i \in (old + 1)..(old + added) :
                   \A j \in 1..(old + added) :
                      classifications'[i].id = classifications'[j].id => i = j
              /\ last'.op = "save_classification" =>
                   Cardinality(RowsOf(classifications', last'.transaction_id))
                      = Cardinality(RowsOf(classifications, last'.transaction_id)) + 1
      ]_vars

\* a transaction that already had a row was saved again: it has two rows with
\* different ids, the newer one last in the table
C6_Witness ==
    /\ last.op = "save_classification"
    /\ \E i, j \in RowsOf(classifications, last.transaction_id) :
          /\ i < j
          /\ classifications[i].id # classifications[j].id
          /\ j = Len(classifications)

\* C7: record_feedback changes the classifications table only when the action
\* is "modify", the corrected account is neither missing nor empty and the
\* transaction has a classification; it then rewrites one row of that
\* transaction, one whose created_at no other row of the transaction exceeds,
\* setting its account to the corrected account and its source to "user", and
\* every other row and every other field stays as it was.  In all other cases
\* the table is unchanged.
C7_FeedbackFrame ==
    [][ (last'.op = "record_feedback" /\ Len(feedbacks') = Len(feedbacks) + 1)
        => LET mine == RowsOf(classifications, last'.transaction_id)
               retargets == /\ last'.action = "modify"
                            /\ last'.corrected_account \notin {None, ""}
                            /\ mine # {}
           IN IF retargets
              THEN \E i \in mine :
                     /\ \A j \in mine : classifications[j].created_at
                                           <= classifications[i].created_at
                     /\ classifications' =
                          [classifications EXCEPT ![i] =
                              [@ EXCEPT !.account = last'.corrected_account,
                                        !.source = "user"]]
              ELSE classifications' = classifications
      ]_vars

\* a modify feedback has retargeted the newer of two rows of a transaction
\* and left the older row alone
C7_Witness ==
    /\ last.op = "record_feedback"
    /\ last.action = "modify"
    /\ \E i, j \in RowsOf(classifications, last.transaction_id) :
          /\ classifications[i].account = last.corrected_account
          /\ classifications[i].source = "user"
          /\ classifications[i].confidence = 9
          /\ classifications[j].created_at < classifications[i].created_at
          /\ classifications[j].source # "user"

----------------------------------------------------------------------------
(* C5, C8 *)

\* the (peer, item, category) triple of a stored transaction
TripleOf(tx) == <<tx.peer, tx.item, tx.category>>

\* the stored modify feedback about transactions with the given triple
ModifyFeedbackOf(triple) ==
    {i \in 1..Len(feedbacks) :
        /\ feedbacks[i].action = "modify"
        /\ \E j \in 1..Len(transactions) :
              /\ transactions[j].id = feedbacks[i].transaction_id
              /\ TripleOf(transactions[j]) = triple}

\* a group with at least min entries that all carry the same corrected account
Unanimous(triple, min) ==
    /\ Cardinality(ModifyFeedbackOf(triple)) >= min
    /\ \A i, j \in ModifyFeedbackOf(triple) :
          feedbacks[i].corrected_account = feedbacks[j].corrected_account

\* C5: analyze_feedback_and_generate_rules(min) creates, for every group of
\* modify feedback with the same (peer, item, category) that has at least min
\* entries all corrected to the same account, exactly one rule with source
\* "auto" targeting that account, and creates no rule for any other group.
C5_RuleGeneration ==
    [][ (last'.op = "analyze_feedback_and_generate_rules")
        => LET min == last'.min_confidence
               old == Len(rules)
               triples == {TripleOf(transactions[j]) : j \in 1..Len(transactions)}
           IN /\ Len(rules') >= old
              /\ SubSeq(rules', 1, old) = rules
              /\ \A triple \in triples :
                   LET made == {i \in (old + 1)..Len(rules') :
                                   rules'[i].conditions =
                                      JsonDumps(AutoConditions(triple[1], triple[2],
                                                               triple[3]))}
                   IN IF Unanimous(triple, min)
                      THEN \E i \in made :
                             /\ made = {i}
                             /\ rules'[i].source = "auto"
                             /\ \A k \in ModifyFeedbackOf(triple) :
                                   rules'[i].account = feedbacks[k].corrected_account
                      ELSE made = {}
      ]_vars

\* C8: get_statistics returns zeros for an empty feedback table; otherwise the
\* accept, reject and modify it returns are the numbers of stored feedback
\* records with that action, and the rates are accept/total and modify/total.
C8_Statistics ==
    (last.op = "get_statistics")
    => LET r == last.result
           Records(action) ==
               Cardinality({i \in 1..Len(feedbacks) : feedbacks[i].action = action})
       IN IF Len(feedbacks) = 0
          THEN /\ r.total = 0 /\ r.accept = 0 /\ r.reject = 0 /\ r.modify = 0
               /\ r.accept_rate = <<0, 1>> /\ r.modify_rate = <<0, 1>>
          ELSE /\ r.accept = Records("accept")
               /\ r.reject = Records("reject")
               /\ r.modify = Records("modify")
               /\ r.accept_rate = Ratio(r.accept, r.total)
               /\ r.modify_rate = Ratio(r.modify, r.total)

----------------------------------------------------------------------------
(* C11 *)

\* C11: match_transaction returns every stored rule whose conditions are all
\* true of the transaction, however many rules the store holds.
C11_NoMatchingRuleLeftOut ==
    last.op = "match_transaction" =>
        \A i \in 1..Len(rules) :
            (LET conditions == JsonLoads(rules[i].conditions)
             IN \A k \in DOMAIN conditions :
                   ConditionTrue(k, conditions[k], last.peer, last.item, last.category))
            => \E j \in 1..Len(last.result) : last.result[j] = rules[i]

----------------------------------------------------------------------------
(* C12, C15 *)

\* C12: a transaction that has a classification row keeps at least as many
\* rows through every classify/persist, feedback, direct edit and rule
\* operation; its rows go away only in the step that deletes the transaction
\* itself.
C12_NeverUnclassified ==
    [][ \A transaction_id \in {"t1", "t2"} :
          RowsOf(classifications, transaction_id) # {} =>
             \/ Cardinality(RowsOf(classifications', transaction_id))
                   >= Cardinality(RowsOf(classifications, transaction_id))
             \/ /\ last'.op = "delete_transaction"
                /\ last'.transaction_id = transaction_id
                /\ last'.result
                /\ \A j \in 1..Len(transactions') : transactions'[j].id # transaction_id
      ]_vars

\* a classified transaction has received feedback and a direct edit, a rule
\* has been deleted, and its row is still there
C12_Witness ==
    /\ last.op = "delete_rule"
    /\ last.result
    /\ feedbacks # <<>>
    /\ \E i \in 1..Len(classifications) :
          /\ classifications[i].account = "Equity:Edit"
          /\ classifications[i].transaction_id = feedbacks[1].transaction_id

\* C15: deleting a stored transaction removes exactly the classification rows
\* and the feedback rows whose transaction_id is that transaction; the rows
\* of other transactions stay, in order and unchanged, and so does every rule.
C15_CascadeFrame ==
    [][ (last'.op = "delete_transaction" /\ last'.result)
        => LET Others(r) == r.transaction_id # last'.transaction_id
           IN /\ classifications' = SelectSeq(classifications, Others)
              /\ feedbacks' = SelectSeq(feedbacks, Others)
              /\ rules' = rules
      ]_vars

\* the first transaction was deleted: the classification with id 1 is gone,
\* while the row and the feedback of the second transaction are still stored
C15_Witness ==
    /\ last.op = "delete_transaction"
    /\ last.result
    /\ last.transaction_id = "t1"
    /\ nextId = 3
    /\ Len(classifications) = 1
    /\ classifications[1].id = 2
    /\ classifications[1].transaction_id = "t2"
    /\ Len(feedbacks) = 1
    /\ feedbacks[1].transaction_id = "t2"

----------------------------------------------------------------------------
(* C13, C14: maintenance of stored rules *)

\* the position of the rule with that id in a store, 0 when there is none
PositionOf(store, rule_id) ==
    IF \E i \in 1..Len(store) : store[i].id = rule_id
    THEN CHOOSE i \in 1..Len(store) : store[i].id = rule_id
    ELSE 0

\* C13: update_rule overwrites exactly the supplied fields among name,
\* conditions and account of the rule with that id, sets its updated_at to the
\* clock reading of the call, and leaves its id, confidence, source and
\* created_at and every other rule as they were; for an id that is not stored
\* it returns the absent value and the store is unchanged
C13_UpdateFrame ==
    [][ last'.op = "update_rule" =>
          LET i == PositionOf(rules, last'.rule_id)
          IN IF i = 0
             THEN /\ ~last'.found
                  /\ rules' = rules
             ELSE /\ last'.found
                  /\ Len(rules') = Len(rules)
                  /\ \A j \in (1..Len(rules)) \ {i} : rules'[j] = rules[j]
                  /\ rules'[i].name = IF last'.name # NoneText
                                      THEN last'.name ELSE rules[i].name
                  /\ rules'[i].conditions = IF last'.conditions # NoneDict
                                            THEN JsonDumps(last'.conditions.dict)
                                            ELSE rules[i].conditions
                  /\ rules'[i].account = IF last'.account # None
                                         THEN last'.account ELSE rules[i].account
                  /\ rules'[i].updated_at = now'
                  /\ now' >= now
                  /\ rules'[i].id = rules[i].id
                  /\ rules'[i].confidence = rules[i].confidence
                  /\ rules'[i].source = rules[i].source
                  /\ rules'[i].created_at = rules[i].created_at
                  /\ last'.result = StoredRuleDict(rules'[i]) ]_vars

\* a rename alone of the auto rule at a later clock reading, the other rule stored
C13_Witness ==
    /\ last.op = "update_rule"
    /\ last.found
    /\ last.rule_id = 2
    /\ last.name = <<"renamed">>
    /\ last.conditions = NoneDict
    /\ last.account = None
    /\ Len(rules) = 2
    /\ rules[2].name = <<"renamed">>
    /\ rules[2].account = "Expenses:Food"
    /\ rules[2].source = "auto"
    /\ rules[2].updated_at > rules[2].created_at
    /\ rules[1].name = <<"rule">>

\* C14: delete_rule returns true exactly when a rule with that id was stored,
\* and then exactly that rule is gone; for an id that is not stored, a second
\* delete included, it returns false and the store is unchanged; get_rule of
\* an id that is not stored, deleted or never known, returns the absent value
C14_DeleteRule ==
    /\ [][ last'.op = "delete_rule" =>
              LET i == PositionOf(rules, last'.rule_id)
              IN /\ last'.result = (i # 0)
                 /\ PositionOf(rules', last'.rule_id) = 0
                 /\ IF i = 0
                    THEN rules' = rules
                    ELSE rules' = SubSeq(rules, 1, i - 1) \o
                                  SubSeq(rules, i + 1, Len(rules)) ]_vars
    /\ [](last.op = "get_rule" =>
              IF PositionOf(rules, last.rule_id) = 0
              THEN ~last.found
              ELSE /\ last.found
                   /\ last.result =
                        StoredRuleDict(rules[PositionOf(rules, last.rule_id)]))

\* rule 1 was deleted, the other rule is still stored, and get_rule(1) is absent
C14_Witness ==
    /\ last.op = "get_rule"
    /\ last.rule_id = 1
    /\ ~last.found
    /\ Len(rules) = 1
    /\ rules[1].id = 2

----------------------------------------------------------------------------
(* C16: the exported mapping *)

\* the stored rules that carry the key as a peer or item pattern
RulesWithKey(key) ==
    {i \in 1..Len(rules) :
        \E j \in 1..Len(ExportPatterns(rules[i])) : ExportPatterns(rules[i])[j] = key}

\* the peer and item patterns of all stored rules
StoredKeys ==
    UNION {{ExportPatterns(rules[i])[j] : j \in 1..Len(ExportPatterns(rules[i]))} :
              i \in 1..Len(rules)}

\* C16: the export has one entry per peer or item pattern of the stored
\* rules, of all of them, and the account of an entry is the account of the
\* last rule in store order that carries the key
C16_ExportFlattensAll ==
    last.op = "export_rules_to_deg_format" =>
        /\ {last.result[n].key : n \in 1..Len(last.result)} = StoredKeys
        /\ \A n, m \in 1..Len(last.result) :
              last.result[n].key = last.result[m].key => n = m
        /\ \A n \in 1..Len(last.result) :
              LET with == RulesWithKey(last.result[n].key)
              IN /\ with # {}
                 /\ last.result[n].account =
                      rules[CHOOSE i \in with : \A l \in with : l <= i].account

----------------------------------------------------------------------------
(* C17: the rule auto_generate_rule_from_feedback persists *)

\* the keys among peer, item and category whose argument is not empty
NonEmptyKeys(peer, item, category) ==
    {k \in {"peer", "item", "category"} :
        LET arg == CASE k = "peer" -> peer [] k = "item" -> item [] k = "category" -> category
        IN arg # NoneText /\ arg # <<>>}

\* C17: auto_generate_rule_from_feedback appends exactly one rule to the
\* store and changes no other; the new rule has source "auto", confidence
\* 0.9, the given account, and conditions whose keys are exactly the keys of
\* the non-empty arguments, each mapped to its argument
C17_GeneratedRule ==
    [][ last'.op = "auto_generate_rule_from_feedback" =>
          LET new == rules'[Len(rules')]
              conditions == JsonLoads(new.conditions)
          IN /\ Len(rules') = Len(rules) + 1
             /\ SubSeq(rules', 1, Len(rules)) = rules
             /\ \A i \in 1..Len(rules) : rules[i].id # new.id
             /\ new.source = "auto"
             /\ new.confidence = 9
             /\ new.account = last'.account
             /\ DOMAIN conditions = NonEmptyKeys(last'.peer, last'.item, last'.category)
             /\ "peer" \in DOMAIN conditions => conditions["peer"] = StrVal(last'.peer)
             /\ "item" \in DOMAIN conditions => conditions["item"] = StrVal(last'.item)
             /\ "category" \in DOMAIN conditions =>
                    conditions["category"] = StrVal(last'.category)
             /\ last'.result = RuleDict(new) ]_vars

\* a rule generated from an item and a category, without a payee, for the
\* second account, next to a rule generated earlier
C17_Witness ==
    /\ last.op = "auto_generate_rule_from_feedback"
    /\ last.peer = <<>>
    /\ last.item = <<"b">>
    /\ last.account = "Income:Other"
    /\ Len(rules) = 2
    /\ rules[1].account = "Expenses:Food"
    /\ rules[2].account = "Income:Other"
    /\ DOMAIN JsonLoads(rules[2].conditions) = {"item", "category"}
    /\ rules[2].source = "auto"

----------------------------------------------------------------------------
(* C18: the learning loop *)

\* the Learner has materialized a rule for the pattern of the transaction
Materialized(tx) ==
    \E i \in 1..Len(rules) :
        /\ rules[i].source = "auto"
        /\ JsonLoads(rules[i].conditions) = AutoConditions(tx.peer, tx.item, tx.category)

\* C18: once the Learner has materialized a rule for the pattern of a
\* transaction, a classification of that transaction is resolved by a rule
\* and the AI provider is not called
C18_LoopClosed ==
    (last.op = "classify_transaction" /\ Materialized(last.transaction)) =>
        /\ ~last.called
        /\ last.result.source = "rule"

----------------------------------------------------------------------------
(* C19: the AI fallback and its historical-rules text *)

\* the number of rules the text may list
ListedCount == IF Len(rules) < HistoricalLimit THEN Len(rules) ELSE HistoricalLimit

\* C19: when no user rule matches, the provider is called once and the result
\* is tagged "ai"; the text passed is "No historical rules" exactly when the
\* store is empty, and otherwise has one line per rule for the most recently
\* created rules, at most 50 of them
C19_HistoricalRules ==
    (last.op = "classify_transaction" /\ UserRules(last.transaction) = <<>>) =>
        /\ Len(last.calls) = 1
        /\ last.result.source = "ai"
        /\ LET text == last.calls[1].historical_rules
           IN /\ (text = NoHistoricalRules) <=> (rules = <<>>)
              /\ rules # <<>> =>
                    /\ Len(text) = ListedCount
                    /\ \A i \in (Len(rules) - ListedCount + 1)..Len(rules) :
                          \E n \in 1..Len(text) : text[n] = HistoricalLine(rules[i])

----------------------------------------------------------------------------
(* C20: the shape of stored feedback *)

\* C20: every stored feedback row has an action among accept, reject and
\* modify, and has a corrected account only when its action is modify
C20_FeedbackWellFormed ==
    \A i \in 1..Len(feedbacks) :
        /\ feedbacks[i].action \in {"accept", "reject", "modify"}
        /\ feedbacks[i].corrected_account # None => feedbacks[i].action = "modify"

----------------------------------------------------------------------------
(* C21: the one batch call of classify_transactions *)

\* the positions of txs no user rule matches
UnresolvedPositions(txs) == {i \in 1..Len(txs) : UserRules(txs[i]) = <<>>}

\* the k-th of these positions, in input order
UnresolvedPosition(txs, k) ==
    CHOOSE i \in UnresolvedPositions(txs) :
        Cardinality({j \in UnresolvedPositions(txs) : j < i}) = k - 1

\* C21: classify_transactions calls batch_classify at most once, with exactly
\* the transactions no user rule matches, in input order, and splices the
\* k-th result into the position of the k-th of them; when a user rule
\* resolves every transaction the provider is neither constructed nor called
C21_OneBatchCall ==
    last.op = "classify_transactions" =>
        LET txs == last.transactions
            n == Cardinality(UnresolvedPositions(txs))
        IN /\ Len(last.batch_calls) <= 1
           /\ IF n = 0
              THEN /\ last.batch_calls = <<>>
                   /\ ~last.constructed
              ELSE /\ last.batch_calls =
                        << [k \in 1..n |-> txs[UnresolvedPosition(txs, k)]] >>
                   /\ Len(last.ai_results) = n
                   /\ \A k \in 1..n :
                        LET result == last.results[UnresolvedPosition(txs, k)]
                        IN /\ result.transaction = txs[UnresolvedPosition(txs, k)]
                           /\ result.source = "ai"
                           /\ result.account = last.ai_results[k].account
                           /\ result.confidence = last.ai_results[k].confidence
                           /\ result.reasoning = last.ai_results[k].reasoning

\* a batch of three whose middle transaction a user rule resolves: the call
\* receives the first and the third, and a batch of resolved ones calls nothing
C21_Witness ==
    /\ last.op = "classify_transactions"
    /\ Len(last.transactions) = 3
    /\ last.results[1].source = "ai"
    /\ last.results[2].source = "rule"
    /\ last.results[3].source = "ai"
    /\ Len(last.batch_calls) = 1
    /\ Len(last.batch_calls[1]) = 2
    /\ last.results[3].account = last.ai_results[2].account

----------------------------------------------------------------------------
(* C22: the number of results of batch_classify *)

\* C22: batch_classify returns as many results as it was given transactions,
\* whatever the model replies; a raised call, a reply that does not parse and
\* a parsed batch of another length end in the one-by-one classification;
\* a batch reply that is returned is returned whole, entry by entry
C22_CountPreserved ==
    last.op = "batch_classify" =>
        LET n == Len(last.transactions)
        IN /\ Len(last.results) = n
           /\ (last.batch.kind \in {"raise", "text"}) => last.fell_back
           /\ (last.batch.kind = "array" /\ Len(last.batch.entries) # n) => last.fell_back
           /\ IF last.fell_back
              THEN /\ Len(last.singles) = n
                   /\ \A k \in 1..n :
                        last.results[k] = OpenAIProvider_classify(last.singles[k])
              ELSE /\ Len(last.batch.entries) = n
                   /\ \A k \in 1..n :
                        /\ last.results[k].account = last.batch.entries[k].account
                        /\ last.results[k].reasoning = last.batch.entries[k].reasoning

\* a reply with one entry more than the three transactions of the prompt:
\* three results, those of the single calls
C22_Witness ==
    /\ last.op = "batch_classify"
    /\ Len(last.transactions) = 3
    /\ last.batch.kind = "array"
    /\ Len(last.batch.entries) = 4
    /\ last.fell_back
    /\ Len(last.results) = 3
    /\ last.results[3].reasoning = <<"about ", "t1">>

----------------------------------------------------------------------------
(* C23: the concurrent single calls *)

\* C23: whatever the order in which the single calls complete, every call
\* completes, the result at position k is the result of the call made for
\* transaction k, and a call that fails gives the degraded default at its
\* own position and leaves the results of the other calls as they are
C23_ByIndex ==
    (last.op = "classify_one_by_one" /\ last.returned) =>
        LET n == Len(last.transactions)
        IN /\ Len(last.results) = n
           /\ {last.completed[i] : i \in 1..Len(last.completed)} = 1..n
           /\ \A k \in 1..n :
                CASE last.replies[k].kind = "raise" ->
                       /\ last.results[k].account = DefaultAccount
                       /\ last.results[k].confidence = 0
                       /\ last.results[k].reasoning = <<"API call failed: ", "timeout">>
                  [] last.replies[k].kind = "text" ->
                       /\ last.results[k].account = DefaultAccount
                       /\ last.results[k].confidence = 0
                  [] OTHER ->
                       last.results[k] = ModelAnswer(last.transactions[k])

\* three calls that completed in the order 3, 1, 2, the first of them failed
C23_Witness ==
    /\ last.op = "classify_one_by_one"
    /\ last.returned
    /\ last.completed = <<3, 1, 2>>
    /\ last.replies[1].kind = "raise"
    /\ last.results[1].confidence = 0
    /\ last.results[2].reasoning = <<"about ", "t2">>
    /\ last.results[3].reasoning = <<"about ", "t3">>

----------------------------------------------------------------------------
(* C24: the alignment of a batch reply *)

\* C24: on the single-prompt path the result at position k is the entry the
\* model produced for the transaction numbered k in the prompt, the entry
\* whose index field is that number, whatever the order of the entries
C24_AlignedByIndex ==
    (last.op = "batch_classify" /\ ~last.fell_back) =>
        \A k \in 1..Len(last.transactions) :
            \E i \in 1..Len(last.batch.entries) :
                /\ last.batch.entries[i].index = k - 1
                /\ last.results[k].account = last.batch.entries[i].account
                /\ last.results[k].confidence = last.batch.entries[i].confidence
                /\ last.results[k].reasoning = last.batch.entries[i].reasoning

----------------------------------------------------------------------------
(* C25: the feedback history the Learner reads *)

\* the stored modify feedback about a stored transaction
StoredModifyFeedback ==
    {i \in 1..Len(feedbacks) :
        /\ feedbacks[i].action = "modify"
        /\ TransactionRepository_get_by_id(feedbacks[i].transaction_id) # {}}

\* C25: get_statistics counts every stored feedback record, and every stored
\* modify record about a stored transaction is an entry of a group of
\* analyze_feedback_and_generate_rules, however many records are stored
C25_CompleteHistory ==
    /\ last.op = "get_statistics" => last.result.total = Len(feedbacks)
    /\ last.op = "analyze_feedback_and_generate_rules" =>
          Len(PatternItems) = Cardinality(StoredModifyFeedback)

----------------------------------------------------------------------------
(* C26: the route of the statistics *)

\* C26: a GET of /feedback/statistics is dispatched to the statistics
\* handler and returns the statistics object, and is not dispatched to the
\* handler of /feedback/{transaction_id}
C26_StatisticsRoute ==
    (last.op = "GET" /\ last.path = <<"feedback", "statistics">>) =>
        /\ last.endpoint = "get_feedback_statistics"
        /\ last.endpoint # "get_feedback_by_transaction"
        /\ DOMAIN last.response =
              {"total", "accept", "reject", "modify", "accept_rate", "modify_rate"}
        /\ last.response = Statistics

----------------------------------------------------------------------------
(* C27: repeated analysis *)

\* the groups of the analysis that qualify for a rule
QualifyingGroups(min_confidence) ==
    {g \in 1..Len(Patterns) : Generates(Patterns[g], min_confidence)}

\* C27: every call of analyze_feedback_and_generate_rules appends one auto
\* rule for each qualifying group, with the conditions and the account of the
\* group, whether or not the store already holds such a rule, so that calls
\* over an unchanged history keep adding rules
C27_NotIdempotent ==
    [][ last'.op = "analyze_feedback_and_generate_rules" =>
          LET qualifying == QualifyingGroups(last'.min_confidence)
              old == Len(rules)
          IN /\ Len(rules') = old + Cardinality(qualifying)
             /\ SubSeq(rules', 1, old) = rules
             /\ \A g \in qualifying :
                   \E i \in (old + 1)..Len(rules') :
                      /\ rules'[i].source = "auto"
                      /\ rules'[i].account = Patterns[g][1].corrected_account
                      /\ JsonLoads(rules'[i].conditions) =
                            AutoConditions(Patterns[g][1].peer, Patterns[g][1].item,
                                           Patterns[g][1].category) ]_vars

----------------------------------------------------------------------------
(* C28: the groups of the analysis *)

\* C28: every group of analyze_feedback_and_generate_rules holds entries of
\* transactions with one and the same (peer, item, category) triple, so that
\* the conditions generated from its first entry describe all of them
C28_GroupsShareTriple ==
    last.op = "analyze_feedback_and_generate_rules" =>
        \A g \in 1..Len(Patterns) :
            \A i, j \in 1..Len(Patterns[g]) :
                /\ Patterns[g][i].peer = Patterns[g][j].peer
                /\ Patterns[g][i].item = Patterns[g][j].item
                /\ Patterns[g][i].category = Patterns[g][j].category

----------------------------------------------------------------------------
(* C29: the account of a generated rule *)

\* C29: analyze_feedback_and_generate_rules completes without error and
\* every rule it has created has a non-empty target account, whatever
\* feedback was recorded before
C29_GeneratedAccount ==
    last.op = "analyze_feedback_and_generate_rules" =>
        /\ last.raised = ""
        /\ \A i \in 1..Len(rules) :
              rules[i].source = "auto" => Truthy(rules[i].account)

----------------------------------------------------------------------------
(* C30: classification after a correction *)

\* the transaction has a row the user has overridden and, inserted after it,
\* a row from a later classification
Reclassified(transaction_id) ==
    LET mine == ClassificationRepository_get_by_transaction_id(transaction_id)
    IN /\ Len(mine) >= 2
       /\ classifications[mine[Len(mine)]].source \in {"rule", "ai"}
       /\ \E k \in 1..(Len(mine) - 1) : classifications[mine[k]].source = "user"

\* the row inserted last for the transaction
NewestRow(transaction_id) ==
    LET mine == ClassificationRepository_get_by_transaction_id(transaction_id)
    IN mine[Len(mine)]

\* C30: persisting a classification of a transaction whose latest row the
\* user has overridden appends a row with source "rule" or "ai" and leaves
\* the overridden row as it is; the appended row is then the most recent
\* classification of the transaction, and the next modify feedback retargets
\* the appended row and not the overridden one
C30_ReclassifiedIsCurrent ==
    /\ [][ last'.op = "save_classification" =>
              /\ Len(classifications') = Len(classifications) + 1
              /\ SubSeq(classifications', 1, Len(classifications)) = classifications
              /\ classifications'[Len(classifications')].source \in {"rule", "ai"} ]_vars
    /\ [](\A tx \in ClassifyTxs :
            Reclassified(tx.id) =>
                LatestOf(ClassificationRepository_get_by_transaction_id(tx.id))
                    = NewestRow(tx.id))
    /\ [][ (last'.op = "record_feedback" /\ Len(feedbacks') = Len(feedbacks) + 1
              /\ Reclassified(last'.transaction_id)) =>
              classifications' =
                 [classifications EXCEPT ![NewestRow(last'.transaction_id)] =
                     [@ EXCEPT !.account = last'.corrected_account,
                               !.source = "user"]] ]_vars

====
